---------------------------- MODULE Spec2Model ----------------------------
(***************************************************************************)
(* LockFreeRingBuffer<T, Size> (src/core/ring_buffer.h) with one producer  *)
(* and one consumer thread.                                                *)
(*                                                                         *)
(* Memory is modelled with the view-based operational form of the C++      *)
(* release/acquire model:                                                  *)
(*   - each cursor (write_idx_, read_idx_) has one writer; the stores made *)
(*     to it are kept in modification order, from the store the other      *)
(*     thread reads now (the head) to the latest one (the last, which its  *)
(*     writer reads); a store becomes visible to the other thread at some  *)
(*     later moment (actions PropagateW, PropagateR);                      *)
(*   - every thread has a view: for each slot of buffer_, the latest       *)
(*     access of that slot that happens-before the thread's next step; a   *)
(*     release store carries the view of the storing thread, an acquire    *)
(*     load joins the view carried by the store it reads into the          *)
(*     thread's view, a relaxed load does not;                             *)
(*   - buffer_[k] is a non-atomic location: an access by a thread whose    *)
(*     view does not name the latest access of that slot is a data race,   *)
(*     and its outcome is arbitrary.                                       *)
(*                                                                         *)
(* A second part models one thread making whole calls on a buffer of any   *)
(* capacity (variables sN, sw, sr, ...), next to a reference FIFO queue.   *)
(***************************************************************************)
EXTENDS Integers, Sequences, FiniteSets, TLC

(***************************************************************************)
(* Bounds.                                                                 *)
(***************************************************************************)
\* capacity N of the instantiated buffer (template parameter Size)
Size == 3
\* an arbitrary producer has MaxItems items to offer to TryPush
MaxItems == 4

\* the largest capacity of a buffer used by one thread alone
MaxSeqSize == 4

\* the number of different items that thread offers
MaxSeqItem == 2
\* the number of SeqLock::write calls and of SeqLock::read calls
MaxLockCalls == 2
\* benchmark_rounds of the benchmarks, 100 in the program
BenchRounds == 5
\* the largest value of kIterations tried
MaxIterations == 17

\* NUM_TICKS of market_data_pipeline_test, larger than the capacity
NumTicks == Size + 1

(***************************************************************************)
(* Values of the element type T.                                           *)
(***************************************************************************)
\* T{} : the content of a slot of the freshly constructed std::array
Default == 0
\* the content a move may leave in the slot it moved from
Moved == -1
\* the items of the producer's stream: the i-th item it generates is i, so
\* that every item is distinct from the others, as the ticks of
\* market_data_pipeline_test are by their timestamps
Items == 1..MaxItems
Ticks == 1..NumTicks
Contents == Items \cup Ticks \cup {Default, Moved}

Slots == 0..(Size - 1)
Threads == {"prod", "cons"}

VARIABLES
  \* memory
  wq,             \* stores to write_idx_ the consumer has yet to read past
  rq,             \* stores to read_idx_ the producer has yet to read past
  buffer,         \* buffer_ : content of every slot
  bts,            \* number of accesses made to every slot
  view,           \* view of every thread: slot -> access it has seen
  race,           \* a data race on a slot has happened
  \* producer thread, inside TryPush
  ppc, item, current_write, next_write, pret, psteps, psnap,
  \* consumer thread, inside TryPop
  cpc, current_read, output, cret, csteps, csnap,
  \* history
  pushed,         \* items of the pushes that stored write_idx_
  popped,         \* items of the pops that stored read_idx_
  \* callers
  start,          \* start flag of market_data_pipeline_test
  pi,             \* number of the item the producer offers next
  ci,             \* number of the item the consumer waits for
  \* one thread using a buffer of capacity sN by itself
  sN,             \* Size of the instantiated buffer
  sw,             \* write_idx_
  sr,             \* read_idx_
  sbuf,           \* buffer_
  sout,           \* the caller's output location
  slast,          \* the last call: operation, item offered, return value
  refq,           \* reference: a FIFO queue of capacity sN - 1
  fd,             \* the pushes made since the buffer was empty, and the
                  \* results of the pops that followed them
  cyc,            \* a pop from the full buffer and the push that follows
  scn,            \* progress along the scenario of the basic test
  laps,           \* how often each cursor went from N - 1 to 0 (up to 2)
  \* two threads calling TryPush on one buffer, and a consumer
  tw,             \* write_idx_
  tr,             \* read_idx_
  tbuf,           \* buffer_
  tout,           \* the consumer's output location
  tpc,            \* position of each pushing thread in TryPush
  tloc,           \* its item, current_write, next_write, return value, and
                  \* the number of write_idx_ stores made before its load
  tn,             \* the number of calls it has made
  tcount,         \* write_idx_ stores made, calls of TryPush that returned true
  tpopped,        \* the items TryPop has returned
  tcret,          \* the return value of the last TryPop
  \* the pipeline program: feed callback, normalization, processing
  mraw,           \* raw_buffer: write_idx_, read_idx_, buffer_
  mnrm,           \* normalized_buffer: write_idx_, read_idx_, buffer_
  mfed,           \* the number of messages handed to the feed callback
  mnpc,           \* normalize_thread: before TryPop, or before TryPush
  mrawv,          \* normalize_thread: its variable raw
  mupd,           \* processing_thread: its variable update
  mtaken,         \* the updates normalize_thread has popped
  mmade,          \* the updates normalize_thread has normalized
  mdone,          \* the updates processing_thread has popped
  \* SeqLock
  sequence,       \* SeqLock::sequence
  data,           \* SeqLock::data
  wlpc,           \* the position of the thread in write
  seq,            \* write: its local seq
  wk,             \* write: the next element of data to assign
  writes,         \* the number of completed write calls
  rlpc,           \* the position of the thread in read
  seq1,           \* read: its local seq1
  seq2,           \* read: its local seq2
  result,         \* read: the caller's array
  rk,             \* read: the next element memcpy copies
  copied,         \* read: the current pass of the loop has made the copy
  loaded,         \* read: the value of its latest load of sequence
  reads,          \* the number of completed read calls
  \* ThreadBarrier barrier_sync in the Asymmetric Barrier benchmark
  producer_ready, \* ThreadBarrier::producer_ready
  consumer_ready, \* ThreadBarrier::consumer_ready
  bppc,           \* the position of the producer thread
  bpround,        \* the rounds the producer thread has completed
  bcpc,           \* the position of the consumer thread
  bcround,        \* the rounds the consumer thread has completed
  \* the ready flag and its data in the Acquire-Release benchmark
  ready,          \* the stores to ready in modification order, each with
                  \* the store to data it releases
  fdata,          \* the stores to the atomic data in modification order
  fppc,           \* the position of the producer thread
  fpround,        \* the rounds the producer thread has completed
  fcpc,           \* the position of the consumer thread
  fcround,        \* the rounds the consumer thread has completed
  fcvr,           \* the earliest store to ready the consumer may still read
  fcvd,           \* the earliest store to data the consumer may still read
  fcr,            \* consumer_acq_rel: its local r
  fcd,            \* consumer_acq_rel: its local d
  \* the Consume Ordering benchmark
  published_node, \* the latest store to published_node
  heap,           \* the Nodes created and not yet deleted
  created,        \* the number of Nodes created
  uses,           \* for each Node, the calls of consumer_consume that
                  \* loaded it and went on to read and delete it
  nppc,           \* the position of the producer thread
  npn,            \* producer_consume: its local n
  npround,        \* the rounds the producer thread has completed
  ncpc,           \* the position of the consumer thread
  ncn,            \* consumer_consume: its local n
  ncround,        \* the rounds the consumer thread has completed
  \* the counter benchmark
  kIterations,    \* the constant kIterations of the build
  counters,       \* counters.counters[thread_id]
  ipc,            \* the position of each thread in increment_counter
  iv              \* increment_counter: the loop variable i of each thread

memVars == <<wq, rq, buffer, bts, view, race>>
prodVars == <<ppc, item, current_write, next_write, pret, psteps, psnap>>
consVars == <<cpc, current_read, output, cret, csteps, csnap>>
histVars == <<pushed, popped>>
pipeVars == <<start, pi, ci>>
seqVars == <<sN, sw, sr, sbuf, sout, slast, refq, fd, cyc, scn, laps>>
concVars == <<memVars, prodVars, consVars, histVars, pipeVars>>
misVars == <<tw, tr, tbuf, tout, tpc, tloc, tn, tcount, tpopped, tcret>>
mainVars == <<mraw, mnrm, mfed, mnpc, mrawv, mupd, mtaken, mmade, mdone>>
lockVars == <<sequence, data, wlpc, seq, wk, writes, rlpc, seq1, seq2,
              result, rk, copied, loaded, reads>>
barVars == <<producer_ready, consumer_ready, bppc, bpround, bcpc, bcround>>
flagVars == <<ready, fdata, fppc, fpround, fcpc, fcround, fcvr, fcvd, fcr,
              fcd>>
nodeVars == <<published_node, heap, created, uses, nppc, npn, npround, ncpc,
              ncn, ncround>>
cntVars == <<kIterations, counters, ipc, iv>>
vars == <<memVars, prodVars, consVars, histVars, pipeVars, seqVars, misVars,
          mainVars, lockVars, barVars, flagVars, nodeVars, cntVars>>

\* what the steps of the two-thread buffer leave alone, and what the
\* calls of the single thread leave alone
nonConcVars == <<seqVars, misVars, mainVars, lockVars, barVars, flagVars,
                 nodeVars, cntVars>>
nonSeqVars == <<concVars, misVars, mainVars, lockVars, barVars, flagVars,
                nodeVars, cntVars>>
nonMisVars == <<concVars, seqVars, mainVars, lockVars, barVars, flagVars,
                nodeVars, cntVars>>
nonMainVars == <<concVars, seqVars, misVars, lockVars, barVars, flagVars,
                 nodeVars, cntVars>>
nonLockVars == <<concVars, seqVars, misVars, mainVars, barVars, flagVars,
                 nodeVars, cntVars>>
nonBarVars == <<seqVars, misVars, mainVars, lockVars, concVars, flagVars,
                nodeVars, cntVars>>
nonFlagVars == <<seqVars, misVars, mainVars, lockVars, barVars, concVars,
                 nodeVars, cntVars>>
nonNodeVars == <<seqVars, misVars, mainVars, lockVars, barVars, flagVars,
                 concVars, cntVars>>
nonCntVars == <<seqVars, misVars, mainVars, lockVars, barVars, flagVars,
                nodeVars, concVars>>

(***************************************************************************)
(* Views.                                                                  *)
(***************************************************************************)
Max(a, b) == IF a >= b THEN a ELSE b

InitView == [k \in Slots |-> 0]

Join(v1, v2) == [k \in Slots |-> Max(v1[k], v2[k])]

Last(q) == q[Len(q)]

\* the value of each cursor: its latest store in modification order
write_idx == Last(wq).val
read_idx == Last(rq).val

\* mutant: i + 1, without the wrap-around
NextIdx_nowrap(i) == i + 1

\* (i + 1) % Size
NextIdx(i) == (i + 1) % Size


(***************************************************************************)
(* Atomic loads and stores.                                                *)
(***************************************************************************)
\* the store of write_idx_ / read_idx_ that thread t reads now
SeenW(t) == IF t = "prod" THEN Last(wq) ELSE Head(wq)
SeenR(t) == IF t = "cons" THEN Last(rq) ELSE Head(rq)

\* view of t after a load(std::memory_order_acquire) that read message m
AcquireView(t, m) == Join(view[t], m.view)
\* view of t after a load(std::memory_order_relaxed) that read message m
RelaxedView(t, m) == view[t]

\* the message appended by a store(val, std::memory_order_release) of
\* thread t
ReleaseMsg(t, val) == [val |-> val, view |-> view[t]]
\* the message appended by a store(val, std::memory_order_relaxed)
RelaxedMsg(t, val) == [val |-> val, view |-> InitView]

(***************************************************************************)
(* Non-atomic accesses of buffer_[k].                                      *)
(***************************************************************************)
\* the latest access of slot k happens-before the next access by thread t
Visible(t, k) == view[t][k] = bts[k]

\* contents slot k can have after  buffer_[k] = v  by thread t
AfterWrite(t, k, v) == IF Visible(t, k) THEN {v} ELSE Contents
\* mutant: the move reads the slot after the one asked for
ReadOf_next(t, k) ==
  IF Visible(t, (k + 1) % Size) THEN {buffer[(k + 1) % Size]} ELSE Contents

\* values  std::move(buffer_[k])  can yield to thread t
ReadOf(t, k) == IF Visible(t, k) THEN {buffer[k]} ELSE Contents
\* contents slot k can have after a move that yielded v: T's move
\* assignment leaves the source unchanged (trivially copyable T) or in its
\* moved-from state (MarketTick holds a std::string)
AfterMove(t, k, v) == IF Visible(t, k) THEN {v, Moved} ELSE Contents

\* the access itself: slot k gets content c, thread t has seen this access
Access(t, k, c) ==
  /\ buffer' = [buffer EXCEPT ![k] = c]
  /\ bts' = [bts EXCEPT ![k] = @ + 1]
  /\ race' = (race \/ ~Visible(t, k))

(***************************************************************************)
(* Layout of the members of LockFreeRingBuffer<MarketTick, Size> in        *)
(* memory, in bytes from the start of the object (LP64, libstdc++).        *)
(***************************************************************************)
\* alignas(64): the size of a cache line
CacheLine == 64
\* sizeof(std::atomic<size_t>)
IndexSize == 8
\* sizeof(MarketTick) and alignof(MarketTick)
TickSize == 64
TickAlign == 8

\* the first offset from o on that is a multiple of a
AlignUp(o, a) == ((o + a - 1) \div a) * a

\* the members in declaration order, each at the first offset after the
\* member before it that satisfies its alignment
OffWriteIdx == 0
OffReadIdx == AlignUp(OffWriteIdx + IndexSize, CacheLine)
OffBuffer == AlignUp(OffReadIdx + IndexSize, TickAlign)
SlotOff(k) == OffBuffer + k * TickSize

\* the cache lines the bytes off .. off + size - 1 lie in (the object
\* itself starts on a cache line boundary)
LinesOf(off, size) == (off \div CacheLine)..((off + size - 1) \div CacheLine)

(***************************************************************************)
(* One thread using a buffer by itself, as basic_functionality_test does:  *)
(* every call runs from its first line to its return before the next one  *)
(* starts, and every load reads the latest store.  The capacity is a       *)
(* parameter here, since the template is instantiated with several sizes.  *)
(***************************************************************************)
\* the capacities the buffer is instantiated with
SeqSizes == 1..MaxSeqSize

\* the items offered to TryPush
SeqItems == 1..MaxSeqItem

\* LockFreeRingBuffer<MarketTick, 4> of basic_functionality_test
ScenarioSize == 4

SeqSlots(n) == 0..(n - 1)

\* a bitwise and of two naturals
RECURSIVE BitAnd(_, _)
BitAnd(a, b) ==
  IF a = 0 \/ b = 0
  THEN 0
  ELSE (a % 2) * (b % 2) + 2 * BitAnd(a \div 2, b \div 2)

\* mutant: (i + 1) & (Size - 1), right for a power of two only
SeqNextIdx_mask(i, n) == BitAnd(i + 1, n - 1)

\* mutant: i + 1, without the wrap-around
SeqNextIdx_nowrap(i, n) == i + 1

\* (i + 1) % Size
SeqNextIdx(i, n) == (i + 1) % n

\* mutant: buffer_[next_write] = item;
SeqTryPush_next(n, w, r, buf, v) ==
  LET cw == w
      nw == SeqNextIdx(cw, n)
  IN  IF nw = r
      THEN [ok |-> FALSE, w |-> w, buf |-> buf]
      ELSE [ok |-> TRUE, w |-> nw, buf |-> [buf EXCEPT ![nw] = v]]

\* mutant: no full test
SeqTryPush_nofull(n, w, r, buf, v) ==
  LET cw == w
      nw == SeqNextIdx(cw, n)
  IN  [ok |-> TRUE, w |-> nw, buf |-> [buf EXCEPT ![cw] = v]]

\* TryPush(v) on a buffer of capacity n with cursors w, r and slots buf:
\* the return value, the write cursor and the slots after the call
SeqTryPush(n, w, r, buf, v) ==
  LET cw == w
      nw == SeqNextIdx(cw, n)
  IN  IF nw = r
      THEN [ok |-> FALSE, w |-> w, buf |-> buf]
      ELSE [ok |-> TRUE, w |-> nw, buf |-> [buf EXCEPT ![cw] = v]]

\* mutant: the slot written last is the one moved out
SeqTryPop_last(n, w, r, buf, out) ==
  LET cr == r
      lw == (w + n - 1) % n
  IN  IF cr = w
      THEN {[ok |-> FALSE, r |-> r, buf |-> buf, out |-> out]}
      ELSE {[ok |-> TRUE, r |-> SeqNextIdx(cr, n),
             buf |-> [buf EXCEPT ![lw] = c], out |-> buf[lw]] :
               c \in {buf[lw], Moved}}

\* TryPop(&out): the possible results (the moved-from slot keeps its value
\* or not); each gives the return value, the read cursor, the slots and
\* the output location after the call
SeqTryPop(n, w, r, buf, out) ==
  LET cr == r
  IN  IF cr = w
      THEN {[ok |-> FALSE, r |-> r, buf |-> buf, out |-> out]}
      ELSE {[ok |-> TRUE, r |-> SeqNextIdx(cr, n),
             buf |-> [buf EXCEPT ![cr] = c], out |-> buf[cr]] :
               c \in {buf[cr], Moved}}

(***************************************************************************)
(* What is recorded about the calls of that thread.                        *)
(***************************************************************************)
\* reference: a FIFO queue q holding at most n - 1 items
RefPush(n, q, v) ==
  IF Len(q) < n - 1
  THEN [ok |-> TRUE, q |-> Append(q, v)]
  ELSE [ok |-> FALSE, q |-> q]

RefPop(q) ==
  IF q = <<>>
  THEN [ok |-> FALSE, q |-> q, val |-> Default]
  ELSE [ok |-> TRUE, q |-> Tail(q), val |-> Head(q)]

NoCall == [op |-> "none", ok |-> FALSE, refok |-> FALSE, refval |-> Default]

\* the pushes made since the buffer was empty (ins) and, once a pop has
\* followed them, the results of the pops (outs); "off" when a push came
\* between the pops.  q is the reference queue before the call.
NoFd == [phase |-> "fill", ins |-> <<>>, outs |-> <<>>]
FdOff == [phase |-> "off", ins |-> <<>>, outs |-> <<>>]

FdPush(f, q, ok, v) ==
  IF ~ok THEN f
  ELSE IF q = <<>> THEN [phase |-> "fill", ins |-> <<v>>, outs |-> <<>>]
  ELSE IF f.phase = "fill" THEN [f EXCEPT !.ins = Append(@, v)]
  ELSE FdOff

FdPop(f, q, ok, val) ==
  IF q = <<>> THEN NoFd
  ELSE IF f.phase = "off" THEN FdOff
  ELSE [phase |-> "drain", ins |-> f.ins,
        outs |-> Append(f.outs, [ok |-> ok, val |-> val])]

\* a successful pop from the full buffer (st = "popped") and the push that
\* comes next (st = "pushed"): the items held before the pop, the item
\* popped, the item pushed and the return value of the push
NoCyc == [st |-> "none", before |-> <<>>, x |-> Default, v |-> Default,
          ok |-> FALSE]

CycPop(n, q, ok, val) ==
  IF ok /\ Len(q) = n - 1
  THEN [st |-> "popped", before |-> q, x |-> val, v |-> Default,
        ok |-> FALSE]
  ELSE NoCyc

CycPush(c, ok, v) ==
  IF c.st = "popped"
  THEN [c EXCEPT !.st = "pushed", !.v = v, !.ok = ok]
  ELSE NoCyc

\* a count of wrap-arounds: 0, 1 or 2 for "twice or more"
LapsAfter(c, old, new) == IF new < old /\ c < 2 THEN c + 1 ELSE c

\* the calls of basic_functionality_test on its buffer of capacity 4, from
\* its first push on, with the arguments A..F numbered 1..6 (the argument
\* of the first refused push is offered again afterwards): the operation,
\* the item offered, the return value asserted and the item asserted in
\* the output
ScriptOp == <<"push", "push", "push", "push", "pop", "pop", "push", "push",
              "push", "pop", "pop", "pop", "pop">>
ScriptArg == <<1, 2, 3, 4, 0, 0, 4, 5, 6, 0, 0, 0, 0>>
ScriptOk == <<TRUE, TRUE, TRUE, FALSE, TRUE, TRUE, TRUE, TRUE,
              FALSE, TRUE, TRUE, TRUE, FALSE>>
ScriptOut == <<0, 0, 0, 0, 1, 2, 0, 0, 0, 3, 4, 5, 0>>

\* pos: how many calls of the script the calls made so far are (-1: they
\* are not the script); its: the items that stand for A, B, ...
ScnOff == [pos |-> -1, its |-> <<>>]
ScnStart(n) == IF n = ScenarioSize THEN [pos |-> 0, its |-> <<>>] ELSE ScnOff

ScnAfter(c, op, v) ==
  IF c.pos < 0 \/ c.pos >= Len(ScriptOp) THEN ScnOff
  ELSE LET k == c.pos + 1
           j == ScriptArg[k]
       IN  IF ScriptOp[k] # op THEN ScnOff
           ELSE IF op = "pop" THEN [pos |-> k, its |-> c.its]
           ELSE IF j > Len(c.its) THEN [pos |-> k, its |-> Append(c.its, v)]
           ELSE IF c.its[j] = v THEN [pos |-> k, its |-> c.its]
           ELSE ScnOff

(***************************************************************************)
(* State after construction.                                               *)
(***************************************************************************)
\* What a call finds on entry, kept until it returns when the other thread
\* is outside the buffer at that moment (quiet): both cursors, buffer_, the
\* caller's output location, the number n of operations the other thread
\* has completed, and whether the caller already sees the other thread's
\* latest cursor store (sync).
NoSnap == [quiet |-> FALSE, sync |-> FALSE, w |-> 0, r |-> 0, n |-> 0,
           buf |-> [k \in Slots |-> Default], out |-> Default]

EntrySnap(otherpc, otherq, otherdone) ==
  IF otherpc = "idle"
    THEN [quiet |-> TRUE, sync |-> (Len(otherq) = 1), w |-> write_idx,
          r |-> read_idx, n |-> Len(otherdone), buf |-> buffer,
          out |-> output]
    ELSE NoSnap

\* the buffer shared by the producer and the consumer thread
ConcInit ==
  /\ wq = <<[val |-> 0, view |-> InitView]>>
  /\ rq = <<[val |-> 0, view |-> InitView]>>
  /\ buffer = [k \in Slots |-> Default]
  /\ bts = [k \in Slots |-> 0]
  /\ view = [t \in Threads |-> InitView]
  /\ race = FALSE
  /\ ppc = "idle" /\ item = Default /\ current_write = 0 /\ next_write = 0
  /\ pret = FALSE /\ psteps = 0 /\ psnap = NoSnap
  /\ cpc = "idle" /\ current_read = 0 /\ output = Default
  /\ cret = FALSE /\ csteps = 0 /\ csnap = NoSnap
  /\ pushed = <<>> /\ popped = <<>>
  /\ start = FALSE /\ pi = 1 /\ ci = 1

\* the buffer of capacity n used by one thread
SeqInitFor(n) ==
  /\ sN = n
  /\ sw = 0
  /\ sr = 0
  /\ sbuf = [k \in SeqSlots(n) |-> Default]
  /\ sout = Default
  /\ slast = NoCall
  /\ refq = <<>>
  /\ fd = NoFd
  /\ cyc = NoCyc
  /\ scn = ScnStart(n)
  /\ laps = [w |-> 0, r |-> 0]

\* the buffer two threads push to
MisThreads == {1, 2}
MisNoLoc == [item |-> Default, cw |-> 0, nw |-> 0, ret |-> FALSE, seen |-> 0]
MisInitVars ==
  /\ tw = 0
  /\ tr = 0
  /\ tbuf = [k \in Slots |-> Default]
  /\ tout = Default
  /\ tpc = [p \in MisThreads |-> "idle"]
  /\ tloc = [p \in MisThreads |-> MisNoLoc]
  /\ tn = [p \in MisThreads |-> 0]
  /\ tcount = [stores |-> 0, succ |-> 0]
  /\ tpopped = <<>>
  /\ tcret = FALSE

\* the buffers and threads of main
MainNewBuffer == [w |-> 0, r |-> 0, buf |-> [k \in Slots |-> Default]]
MainInitVars ==
  /\ mraw = MainNewBuffer
  /\ mnrm = MainNewBuffer
  /\ mfed = 0
  /\ mnpc = "pop"
  /\ mrawv = Default
  /\ mupd = Default
  /\ mtaken = <<>>
  /\ mmade = <<>>
  /\ mdone = <<>>

\* SeqLock seqlock: sequence{0}, data{0, 0, 0, 0}; the locals of read hold
\* nothing until read is called
DataLen == 4
DataIdx == 0..(DataLen - 1)
LockInitVars ==
  /\ sequence = 0
  /\ data = [k \in DataIdx |-> 0]
  /\ wlpc = "idle"
  /\ seq = 0
  /\ wk = 0
  /\ writes = 0
  /\ rlpc = "idle"
  /\ seq1 = 0
  /\ seq2 = 0
  /\ result = [k \in DataIdx |-> 0]
  /\ rk = 0
  /\ copied = FALSE
  /\ loaded = 0
  /\ reads = 0

\* the Asymmetric Barrier benchmark after benchmark_sync_pattern has reset
\* barrier_sync and before its two threads run
BarInitVars ==
  /\ producer_ready = FALSE
  /\ consumer_ready = FALSE
  /\ bppc = "L206"
  /\ bpround = 0
  /\ bcpc = "L219"
  /\ bcround = 0

\* a store to ready that releases nothing
NoRelease == 0

\* the Acquire-Release benchmark after benchmark_sync_pattern has stored
\* ready = false and data = 0 and before its two threads run; starting a
\* thread makes both stores visible to it
FlagInitVars ==
  /\ ready = <<[val |-> FALSE, rel |-> NoRelease]>>
  /\ fdata = <<0>>
  /\ fppc = "L40"
  /\ fpround = 0
  /\ fcpc = "L48"
  /\ fcround = 0
  /\ fcvr = 1
  /\ fcvd = 1
  /\ fcr = FALSE
  /\ fcd = 0

\* the null pointer; the Nodes are numbered from 1 in the order of creation
nullptr == 0
Nodes == 1..BenchRounds

\* the Consume Ordering benchmark after benchmark_sync_pattern has stored
\* published_node = nullptr and before its two threads run
NodeInitVars ==
  /\ published_node = nullptr
  /\ heap = {}
  /\ created = 0
  /\ uses = [n \in Nodes |-> 0]
  /\ nppc = "L91"
  /\ npn = nullptr
  /\ npround = 0
  /\ ncpc = "L100"
  /\ ncn = nullptr
  /\ ncround = 0

\* the threads of the counter benchmark, 24 in the program
kNumThreads == 3
CntThreads == 0..(kNumThreads - 1)

\* T counters{} and the threads at the start of increment_counter; the
\* value of kIterations is fixed here and drawn in CntInit
CntInitVars ==
  /\ kIterations = 0
  /\ counters = [t \in CntThreads |-> 0]
  /\ ipc = [t \in CntThreads |-> "L296"]
  /\ iv = [t \in CntThreads |-> 0]

\* what each specification leaves at its constructed value
OtherInit == MisInitVars /\ MainInitVars /\ LockInitVars /\ BarInitVars /\ FlagInitVars /\ NodeInitVars /\ CntInitVars

Init == ConcInit /\ SeqInitFor(Size) /\ OtherInit

SeqInit == ConcInit /\ (\E n \in SeqSizes : SeqInitFor(n)) /\ OtherInit

MisInit == ConcInit /\ SeqInitFor(Size) /\ OtherInit

MainInit == ConcInit /\ SeqInitFor(Size) /\ OtherInit

LockInit == ConcInit /\ SeqInitFor(Size) /\ OtherInit

BarInit == ConcInit /\ SeqInitFor(Size) /\ OtherInit

FlagInit == ConcInit /\ SeqInitFor(Size) /\ OtherInit

NodeInit == ConcInit /\ SeqInitFor(Size) /\ OtherInit

\* the counter benchmark of a build with any kIterations up to
\* MaxIterations
CntInit ==
  /\ ConcInit /\ SeqInitFor(Size)
  /\ MisInitVars /\ MainInitVars /\ LockInitVars /\ BarInitVars
  /\ FlagInitVars /\ NodeInitVars
  /\ kIterations \in 0..MaxIterations
  /\ counters = [t \in CntThreads |-> 0]
  /\ ipc = [t \in CntThreads |-> "L296"]
  /\ iv = [t \in CntThreads |-> 0]

(***************************************************************************)
(* bool TryPush(const T& item)                                             *)
(***************************************************************************)
\* the caller enters TryPush(v)
PushCall(v) ==
  /\ ppc = "idle"
  /\ ppc' = "L11"
  /\ item' = v
  /\ psteps' = 0
  /\ psnap' = EntrySnap(cpc, rq, popped)
  /\ UNCHANGED <<current_write, next_write, pret>>
  /\ UNCHANGED <<memVars, consVars, histVars>>
  /\ UNCHANGED nonConcVars

\* view of the producer after  write_idx_.load(std::memory_order_relaxed)
PushLoadWriteView == RelaxedView("prod", SeenW("prod"))

\* line 11-12: current_write = write_idx_.load(relaxed); next_write = ...
PushLoadWrite ==
  /\ ppc = "L11"
  /\ current_write' = SeenW("prod").val
  /\ next_write' = NextIdx(SeenW("prod").val)
  /\ view' = [view EXCEPT !["prod"] = PushLoadWriteView]
  /\ ppc' = "L14"
  /\ psteps' = psteps + 1
  /\ UNCHANGED <<item, pret, psnap>>
  /\ UNCHANGED <<wq, rq, buffer, bts, race>>
  /\ UNCHANGED <<consVars, histVars, pipeVars>>
  /\ UNCHANGED nonConcVars

\* mutant: read_idx_.load(std::memory_order_relaxed) in TryPush
PushLoadReadView_relaxed == RelaxedView("prod", SeenR("prod"))

\* view of the producer after  read_idx_.load(std::memory_order_acquire)
PushLoadReadView == AcquireView("prod", SeenR("prod"))

\* mutant: no full test, the oldest element is overwritten
PushFull_never(next, read) == FALSE

\* mutant: the full test reserves two slots
PushFull_early(next, read) == (next + 1) % Size = read \/ next = read

\* line 14: next_write == read_idx_.load(acquire)
PushFull(next, read) == next = read

\* mutant: the slot is written before the full test
PushCheckFull_writes ==
  /\ ppc = "L14"
  /\ \E c \in AfterWrite("prod", current_write, item) :
       Access("prod", current_write, c)
  /\ view' = [view EXCEPT
                !["prod"] = [PushLoadReadView EXCEPT
                               ![current_write] = bts[current_write] + 1]]
  /\ IF PushFull(next_write, SeenR("prod").val)
       THEN ppc' = "ret" /\ pret' = FALSE
       ELSE ppc' = "L18" /\ pret' = pret
  /\ psteps' = psteps + 1
  /\ UNCHANGED <<item, current_write, next_write, psnap>>
  /\ UNCHANGED <<wq, rq>>
  /\ UNCHANGED <<consVars, histVars, pipeVars>>
  /\ UNCHANGED nonConcVars

\* mutant: TryPush waits for room instead of returning false
PushCheckFull_spin ==
  /\ ppc = "L14"
  /\ view' = [view EXCEPT !["prod"] = PushLoadReadView]
  /\ IF PushFull(next_write, SeenR("prod").val)
       THEN ppc' = "L14"
       ELSE ppc' = "L18"
  /\ psteps' = psteps + 1
  /\ UNCHANGED <<item, current_write, next_write, pret, psnap>>
  /\ UNCHANGED <<wq, rq, buffer, bts, race>>
  /\ UNCHANGED <<consVars, histVars, pipeVars>>
  /\ UNCHANGED nonConcVars

\* line 14-16: if (next_write == read_idx_.load(acquire)) return false;
PushCheckFull ==
  /\ ppc = "L14"
  /\ view' = [view EXCEPT !["prod"] = PushLoadReadView]
  /\ IF PushFull(next_write, SeenR("prod").val)
       THEN ppc' = "ret" /\ pret' = FALSE
       ELSE ppc' = "L18" /\ pret' = pret
  /\ psteps' = psteps + 1
  /\ UNCHANGED <<item, current_write, next_write, psnap>>
  /\ UNCHANGED <<wq, rq, buffer, bts, race>>
  /\ UNCHANGED <<consVars, histVars, pipeVars>>
  /\ UNCHANGED nonConcVars

\* mutant: buffer_[next_write] = item;
PushWriteSlot_next ==
  /\ ppc = "L18"
  /\ \E c \in AfterWrite("prod", next_write, item) :
       Access("prod", next_write, c)
  /\ view' = [view EXCEPT !["prod"][next_write] = bts[next_write] + 1]
  /\ ppc' = "L19"
  /\ psteps' = psteps + 1
  /\ UNCHANGED <<item, current_write, next_write, pret, psnap>>
  /\ UNCHANGED <<wq, rq>>
  /\ UNCHANGED <<consVars, histVars, pipeVars>>
  /\ UNCHANGED nonConcVars

\* line 18: buffer_[current_write] = item;
PushWriteSlot ==
  /\ ppc = "L18"
  /\ \E c \in AfterWrite("prod", current_write, item) :
       Access("prod", current_write, c)
  /\ view' = [view EXCEPT !["prod"][current_write] = bts[current_write] + 1]
  /\ ppc' = "L19"
  /\ psteps' = psteps + 1
  /\ UNCHANGED <<item, current_write, next_write, pret, psnap>>
  /\ UNCHANGED <<wq, rq>>
  /\ UNCHANGED <<consVars, histVars, pipeVars>>
  /\ UNCHANGED nonConcVars

\* mutant: write_idx_.store(current_write, release)
PushStoreMsg_stale == ReleaseMsg("prod", current_write)

\* the message of  write_idx_.store(next_write, std::memory_order_release)
PushStoreMsg == ReleaseMsg("prod", next_write)

\* line 19-20: write_idx_.store(next_write, release); return true;
PushPublish ==
  /\ ppc = "L19"
  /\ wq' = Append(wq, PushStoreMsg)
  /\ pushed' = Append(pushed, item)
  /\ ppc' = "ret"
  /\ pret' = TRUE
  /\ psteps' = psteps + 1
  /\ UNCHANGED <<item, current_write, next_write, psnap>>
  /\ UNCHANGED <<rq, buffer, bts, view, race>>
  /\ UNCHANGED <<consVars, popped, pipeVars>>
  /\ UNCHANGED nonConcVars

\* the steps of TryPush between its call and its return
ProducerStep ==
  \/ PushLoadWrite
  \/ PushCheckFull
  \/ PushWriteSlot
  \/ PushPublish

(***************************************************************************)
(* bool TryPop(T* output)                                                  *)
(***************************************************************************)
\* the caller enters TryPop(&output)
PopCall ==
  /\ cpc = "idle"
  /\ cpc' = "L24"
  /\ csteps' = 0
  /\ csnap' = EntrySnap(ppc, wq, pushed)
  /\ UNCHANGED <<current_read, output, cret>>
  /\ UNCHANGED <<memVars, prodVars, histVars>>
  /\ UNCHANGED nonConcVars

\* view of the consumer after  read_idx_.load(std::memory_order_relaxed)
PopLoadReadView == RelaxedView("cons", SeenR("cons"))

\* line 24: current_read = read_idx_.load(relaxed);
PopLoadRead ==
  /\ cpc = "L24"
  /\ current_read' = SeenR("cons").val
  /\ view' = [view EXCEPT !["cons"] = PopLoadReadView]
  /\ cpc' = "L26"
  /\ csteps' = csteps + 1
  /\ UNCHANGED <<output, cret, csnap>>
  /\ UNCHANGED <<wq, rq, buffer, bts, race>>
  /\ UNCHANGED <<prodVars, histVars, pipeVars>>
  /\ UNCHANGED nonConcVars

\* mutant: write_idx_.load(std::memory_order_relaxed) in TryPop
PopLoadWriteView_relaxed == RelaxedView("cons", SeenW("cons"))

\* view of the consumer after  write_idx_.load(std::memory_order_acquire)
PopLoadWriteView == AcquireView("cons", SeenW("cons"))

\* mutant: the empty test is the full test
PopEmpty_full(read, write) == (write + 1) % Size = read

\* line 26: current_read == write_idx_.load(acquire)
PopEmpty(read, write) == read = write

\* line 26-28: if (current_read == write_idx_.load(acquire)) return false;
PopCheckEmpty ==
  /\ cpc = "L26"
  /\ view' = [view EXCEPT !["cons"] = PopLoadWriteView]
  /\ IF PopEmpty(current_read, SeenW("cons").val)
       THEN cpc' = "ret" /\ cret' = FALSE
       ELSE cpc' = "L30" /\ cret' = cret
  /\ csteps' = csteps + 1
  /\ UNCHANGED <<current_read, output, csnap>>
  /\ UNCHANGED <<wq, rq, buffer, bts, race>>
  /\ UNCHANGED <<prodVars, histVars, pipeVars>>
  /\ UNCHANGED nonConcVars

\* line 30: *output = std::move(buffer_[current_read]);
PopMoveSlot ==
  /\ cpc = "L30"
  /\ \E v \in ReadOf("cons", current_read) :
       /\ output' = v
       /\ \E c \in AfterMove("cons", current_read, v) :
            Access("cons", current_read, c)
  /\ view' = [view EXCEPT !["cons"][current_read] = bts[current_read] + 1]
  /\ cpc' = "L31"
  /\ csteps' = csteps + 1
  /\ UNCHANGED <<current_read, cret, csnap>>
  /\ UNCHANGED <<wq, rq>>
  /\ UNCHANGED <<prodVars, histVars, pipeVars>>
  /\ UNCHANGED nonConcVars

\* mutant: read_idx_.store(current_read, release)
PopStoreMsg_noadvance == ReleaseMsg("cons", current_read)

\* the message of  read_idx_.store((current_read + 1) % Size, release)
PopStoreMsg == ReleaseMsg("cons", NextIdx(current_read))

\* mutant: write_idx_.store((current_read + 1) % Size, release) in TryPop
PopPublish_writecursor ==
  /\ cpc = "L31"
  /\ wq' = Append(wq, PopStoreMsg)
  /\ popped' = Append(popped, output)
  /\ cpc' = "ret"
  /\ cret' = TRUE
  /\ csteps' = csteps + 1
  /\ UNCHANGED <<current_read, output, csnap>>
  /\ UNCHANGED <<rq, buffer, bts, view, race>>
  /\ UNCHANGED <<prodVars, pushed, pipeVars>>
  /\ UNCHANGED nonConcVars

\* line 31-32: read_idx_.store((current_read + 1) % Size, release); return true;
PopPublish ==
  /\ cpc = "L31"
  /\ rq' = Append(rq, PopStoreMsg)
  /\ popped' = Append(popped, output)
  /\ cpc' = "ret"
  /\ cret' = TRUE
  /\ csteps' = csteps + 1
  /\ UNCHANGED <<current_read, output, csnap>>
  /\ UNCHANGED <<wq, buffer, bts, view, race>>
  /\ UNCHANGED <<prodVars, pushed, pipeVars>>
  /\ UNCHANGED nonConcVars

\* the steps of TryPop between its call and its return
ConsumerStep ==
  \/ PopLoadRead
  \/ PopCheckEmpty
  \/ PopMoveSlot
  \/ PopPublish

(***************************************************************************)
(* Visibility of atomic stores: a store to write_idx_ becomes visible to   *)
(* the consumer, a store to read_idx_ to the producer, some time after it  *)
(* was made; until then the thread's loads return the older value.         *)
(***************************************************************************)
PropagateW ==
  /\ Len(wq) > 1
  /\ wq' = Tail(wq)
  /\ UNCHANGED <<rq, buffer, bts, view, race>>
  /\ UNCHANGED <<prodVars, consVars, histVars, pipeVars>>
  /\ UNCHANGED nonConcVars

PropagateR ==
  /\ Len(rq) > 1
  /\ rq' = Tail(rq)
  /\ UNCHANGED <<wq, buffer, bts, view, race>>
  /\ UNCHANGED <<prodVars, consVars, histVars, pipeVars>>
  /\ UNCHANGED nonConcVars

(***************************************************************************)
(* Arbitrary callers: the producer thread offers the items of its stream   *)
(* one after the other; when TryPush fails it either offers the same item  *)
(* again (ring_buffer.cpp:110) or drops it (CMakeLists.txt:76).  The       *)
(* consumer thread calls TryPop any number of times.                       *)
(***************************************************************************)
AnyPush ==
  /\ pi <= MaxItems
  /\ PushCall(pi)
  /\ UNCHANGED pipeVars

PushReturn ==
  /\ ppc = "ret"
  /\ ppc' = "idle"
  /\ item' = Default /\ current_write' = 0 /\ next_write' = 0
  /\ pret' = FALSE /\ psteps' = 0 /\ psnap' = NoSnap
  /\ pi' \in (IF pret THEN {pi + 1} ELSE {pi, pi + 1})
  /\ UNCHANGED <<start, ci>>
  /\ UNCHANGED <<memVars, consVars, histVars>>
  /\ UNCHANGED nonConcVars

AnyPop ==
  /\ PopCall
  /\ UNCHANGED pipeVars

PopReturn ==
  /\ cpc = "ret"
  /\ cpc' = "idle"
  /\ current_read' = 0 /\ cret' = FALSE /\ csteps' = 0 /\ csnap' = NoSnap
  /\ ci' = (IF cret THEN ci + 1 ELSE ci)
  /\ UNCHANGED <<output, start, pi>>
  /\ UNCHANGED <<memVars, prodVars, histVars>>
  /\ UNCHANGED nonConcVars

Next ==
  \/ AnyPush
  \/ PushLoadWrite
  \/ PushCheckFull
  \/ PushWriteSlot
  \/ PushPublish
  \/ PushReturn
  \/ AnyPop
  \/ PopLoadRead
  \/ PopCheckEmpty
  \/ PopMoveSlot
  \/ PopPublish
  \/ PopReturn
  \/ PropagateW
  \/ PropagateR

Spec == Init /\ [][Next]_vars

(***************************************************************************)
(* market_data_pipeline_test (tests/ring_buffer.cpp:70-176): the producer  *)
(* thread pushes ticks 1..NUM_TICKS, the consumer thread pops NUM_TICKS    *)
(* times, both retrying until the operation succeeds.                      *)
(***************************************************************************)
\* line 154: start = true;
Start ==
  /\ ~start
  /\ start' = TRUE
  /\ UNCHANGED <<pi, ci>>
  /\ UNCHANGED <<memVars, prodVars, consVars, histVars>>
  /\ UNCHANGED nonConcVars

\* line 87, 89, 110: while (!start) ...; for (i = 1; i <= NUM_TICKS; ++i)
\*                   ... buffer.TryPush(tick)
PipePush ==
  /\ start
  /\ pi <= NumTicks
  /\ PushCall(pi)
  /\ UNCHANGED pipeVars

\* line 110-111: while (!buffer.TryPush(tick)) { yield(); }  producer_count++;
PipePushReturn ==
  /\ ppc = "ret"
  /\ ppc' = "idle"
  /\ item' = Default /\ current_write' = 0 /\ next_write' = 0
  /\ pret' = FALSE /\ psteps' = 0 /\ psnap' = NoSnap
  /\ pi' = (IF pret THEN pi + 1 ELSE pi)
  /\ UNCHANGED <<start, ci>>
  /\ UNCHANGED <<memVars, consVars, histVars>>
  /\ UNCHANGED nonConcVars

\* line 128, 131-132: while (!start) ...; for (i = 1; i <= NUM_TICKS; ++i)
\*                    ... buffer.TryPop(&tick)
PipePop ==
  /\ start
  /\ ci <= NumTicks
  /\ PopCall
  /\ UNCHANGED pipeVars

\* line 132, 143: while (!buffer.TryPop(&tick)) { yield(); }  consumer_count++;
PipePopReturn == PopReturn

ProducerThread ==
  \/ PipePush
  \/ ProducerStep
  \/ PipePushReturn

ConsumerThread ==
  \/ PipePop
  \/ ConsumerStep
  \/ PipePopReturn

PipeNext ==
  \/ Start
  \/ PipePush
  \/ PushLoadWrite
  \/ PushCheckFull
  \/ PushWriteSlot
  \/ PushPublish
  \/ PipePushReturn
  \/ PipePop
  \/ PopLoadRead
  \/ PopCheckEmpty
  \/ PopMoveSlot
  \/ PopPublish
  \/ PipePopReturn
  \/ PropagateW
  \/ PropagateR

\* both threads are scheduled fairly, and a store to an atomic becomes
\* visible to the other thread in finite time
PipeFair ==
  /\ WF_vars(Start)
  /\ WF_vars(ProducerThread)
  /\ WF_vars(ConsumerThread)
  /\ WF_vars(PropagateW)
  /\ WF_vars(PropagateR)

PipeSpec == Init /\ [][PipeNext]_vars /\ PipeFair

(***************************************************************************)
(* The calls of one thread using a buffer by itself.                       *)
(***************************************************************************)
\* buffer.TryPush(v), from call to return
SeqPush(v) ==
  LET p == SeqTryPush(sN, sw, sr, sbuf, v)
      ref == RefPush(sN, refq, v)
  IN  /\ sw' = p.w
      /\ sbuf' = p.buf
      /\ UNCHANGED <<sN, sr, sout>>
      /\ slast' = [op |-> "push", ok |-> p.ok, refok |-> ref.ok,
                   refval |-> Default]
      /\ refq' = ref.q
      /\ fd' = FdPush(fd, refq, p.ok, v)
      /\ cyc' = CycPush(cyc, p.ok, v)
      /\ scn' = ScnAfter(scn, "push", v)
      /\ laps' = [laps EXCEPT !.w = LapsAfter(@, sw, p.w)]
      /\ UNCHANGED nonSeqVars

\* buffer.TryPop(&out), from call to return
SeqPop ==
  \E p \in SeqTryPop(sN, sw, sr, sbuf, sout) :
    LET ref == RefPop(refq)
    IN  /\ sr' = p.r
        /\ sbuf' = p.buf
        /\ sout' = p.out
        /\ UNCHANGED <<sN, sw>>
        /\ slast' = [op |-> "pop", ok |-> p.ok, refok |-> ref.ok,
                     refval |-> ref.val]
        /\ refq' = ref.q
        /\ fd' = FdPop(fd, refq, p.ok, p.out)
        /\ cyc' = CycPop(sN, refq, p.ok, p.out)
        /\ scn' = ScnAfter(scn, "pop", Default)
        /\ laps' = [laps EXCEPT !.r = LapsAfter(@, sr, p.r)]
        /\ UNCHANGED nonSeqVars

SeqAnyPush == \E v \in SeqItems : SeqPush(v)

SeqNext == SeqAnyPush \/ SeqPop

SeqSpec == SeqInit /\ [][SeqNext]_vars

(***************************************************************************)
(* Two threads calling TryPush on the same buffer, against the single-     *)
(* producer rule, and one consumer.  Loads read the latest store here.     *)
(***************************************************************************)
\* thread p calls TryPush with its next item: 1, 3, .. for one thread and
\* 2, 4, .. for the other
MisCall(p) ==
  /\ tpc[p] = "idle"
  /\ 2 * tn[p] + p <= MaxItems
  /\ tpc' = [tpc EXCEPT ![p] = "L11"]
  /\ tloc' = [tloc EXCEPT ![p] = [MisNoLoc EXCEPT !.item = 2 * tn[p] + p]]
  /\ tn' = [tn EXCEPT ![p] = @ + 1]
  /\ UNCHANGED <<tw, tr, tbuf, tout, tcount, tpopped, tcret>>
  /\ UNCHANGED nonMisVars

\* line 11-12
MisLoadWrite(p) ==
  /\ tpc[p] = "L11"
  /\ tloc' = [tloc EXCEPT ![p].cw = tw, ![p].nw = NextIdx(tw),
                          ![p].seen = tcount.stores]
  /\ tpc' = [tpc EXCEPT ![p] = "L14"]
  /\ UNCHANGED <<tw, tr, tbuf, tout, tn, tcount, tpopped, tcret>>
  /\ UNCHANGED nonMisVars

\* line 14-16
MisCheckFull(p) ==
  /\ tpc[p] = "L14"
  /\ IF PushFull(tloc[p].nw, tr)
       THEN tpc' = [tpc EXCEPT ![p] = "ret"]
       ELSE tpc' = [tpc EXCEPT ![p] = "L18"]
  /\ UNCHANGED <<tw, tr, tbuf, tout, tloc, tn, tcount, tpopped, tcret>>
  /\ UNCHANGED nonMisVars

\* the other thread has written the same slot in a call that loaded
\* write_idx_ after the same store: two writes with no order between them
MisRacing(p) ==
  \E q \in MisThreads \ {p} :
    /\ tpc[q] \in {"L19", "ret"} /\ tloc[q].ret = (tpc[q] = "ret")
    /\ tloc[q].cw = tloc[p].cw
    /\ tloc[q].seen = tloc[p].seen

\* contents the slot can have after  buffer_[current_write] = item  by p
MisAfterWrite(p) ==
  IF MisRacing(p)
  THEN {tloc[p].item, Moved} \cup {tloc[q].item : q \in MisThreads \ {p}}
  ELSE {tloc[p].item}

\* line 18
MisWriteSlot(p) ==
  /\ tpc[p] = "L18"
  /\ \E c \in MisAfterWrite(p) : tbuf' = [tbuf EXCEPT ![tloc[p].cw] = c]
  /\ tpc' = [tpc EXCEPT ![p] = "L19"]
  /\ UNCHANGED <<tw, tr, tout, tloc, tn, tcount, tpopped, tcret>>
  /\ UNCHANGED nonMisVars

\* mutant: write_idx_.store((write_idx_.load() + 1) % Size, release)
MisStoreVal_reload(p) == NextIdx(tw)

\* the value line 19 stores
MisStoreVal(p) == tloc[p].nw

\* line 19-20
MisPublish(p) ==
  /\ tpc[p] = "L19"
  /\ tw' = MisStoreVal(p)
  /\ tcount' = [stores |-> tcount.stores + 1, succ |-> tcount.succ + 1]
  /\ tloc' = [tloc EXCEPT ![p].ret = TRUE]
  /\ tpc' = [tpc EXCEPT ![p] = "ret"]
  /\ UNCHANGED <<tr, tbuf, tout, tn, tpopped, tcret>>
  /\ UNCHANGED nonMisVars

\* the steps of TryPush by thread p between its call and its return
MisStep(p) ==
  \/ MisLoadWrite(p)
  \/ MisCheckFull(p)
  \/ MisWriteSlot(p)
  \/ MisPublish(p)

\* TryPush has returned to p
MisReturn(p) ==
  /\ tpc[p] = "ret"
  /\ tpc' = [tpc EXCEPT ![p] = "idle"]
  /\ UNCHANGED <<tw, tr, tbuf, tout, tloc, tn, tcount, tpopped, tcret>>
  /\ UNCHANGED nonMisVars

\* the consumer's TryPop(&out), from call to return
MisPop ==
  \E res \in SeqTryPop(Size, tw, tr, tbuf, tout) :
    /\ tr' = res.r
    /\ tbuf' = res.buf
    /\ tout' = res.out
    /\ tcret' = res.ok
    /\ tpopped' = IF res.ok THEN Append(tpopped, res.out) ELSE tpopped
    /\ UNCHANGED <<tw, tpc, tloc, tn, tcount>>
    /\ UNCHANGED nonMisVars

MisAnyCall == \E p \in MisThreads : MisCall(p)
MisAnyLoadWrite == \E p \in MisThreads : MisLoadWrite(p)
MisAnyCheckFull == \E p \in MisThreads : MisCheckFull(p)
MisAnyWriteSlot == \E p \in MisThreads : MisWriteSlot(p)
MisAnyPublish == \E p \in MisThreads : MisPublish(p)
MisAnyReturn == \E p \in MisThreads : MisReturn(p)

MisNext ==
  \/ MisAnyCall
  \/ MisAnyLoadWrite
  \/ MisAnyCheckFull
  \/ MisAnyWriteSlot
  \/ MisAnyPublish
  \/ MisAnyReturn
  \/ MisPop

MisSpec == MisInit /\ [][MisNext]_vars

(***************************************************************************)
(* main: the feed callback pushes to raw_buffer, normalize_thread pops     *)
(* from it and pushes to normalized_buffer, processing_thread pops from    *)
(* that.  Both buffers have capacity Size here (4096 in the program);      *)
(* calls are taken as a whole and loads read the latest store.             *)
(***************************************************************************)
\* normalizer.Normalize(raw): the normalized update made from a raw one
Normalize(raw) == raw + MaxItems

\* the message handler: one raw_buffer.TryPush(update), result not looked at
FeedMessage ==
  /\ mfed < MaxItems
  /\ LET p == SeqTryPush(Size, mraw.w, mraw.r, mraw.buf, mfed + 1)
     IN  mraw' = [mraw EXCEPT !.w = p.w, !.buf = p.buf]
  /\ mfed' = mfed + 1
  /\ UNCHANGED <<mnrm, mnpc, mrawv, mupd, mtaken, mmade, mdone>>
  /\ UNCHANGED nonMainVars

\* normalize_thread: if (raw_buffer.TryPop(&raw))
NormPop ==
  /\ mnpc = "pop"
  /\ \E res \in SeqTryPop(Size, mraw.w, mraw.r, mraw.buf, mrawv) :
       /\ mraw' = [mraw EXCEPT !.r = res.r, !.buf = res.buf]
       /\ mrawv' = res.out
       /\ mnpc' = IF res.ok THEN "push" ELSE "pop"
       /\ mtaken' = IF res.ok THEN Append(mtaken, res.out) ELSE mtaken
  /\ UNCHANGED <<mnrm, mfed, mupd, mmade, mdone>>
  /\ UNCHANGED nonMainVars

\* normalize_thread: normalized_buffer.TryPush(normalizer.Normalize(raw)),
\* result not looked at
NormPush ==
  /\ mnpc = "push"
  /\ LET p == SeqTryPush(Size, mnrm.w, mnrm.r, mnrm.buf, Normalize(mrawv))
     IN  mnrm' = [mnrm EXCEPT !.w = p.w, !.buf = p.buf]
  /\ mmade' = Append(mmade, Normalize(mrawv))
  /\ mnpc' = "pop"
  /\ UNCHANGED <<mraw, mfed, mrawv, mupd, mtaken, mdone>>
  /\ UNCHANGED nonMainVars

\* processing_thread: if (normalized_buffer.TryPop(&update))
ProcPop ==
  /\ \E res \in SeqTryPop(Size, mnrm.w, mnrm.r, mnrm.buf, mupd) :
       /\ mnrm' = [mnrm EXCEPT !.r = res.r, !.buf = res.buf]
       /\ mupd' = res.out
       /\ mdone' = IF res.ok THEN Append(mdone, res.out) ELSE mdone
  /\ UNCHANGED <<mraw, mfed, mnpc, mrawv, mtaken, mmade>>
  /\ UNCHANGED nonMainVars

MainNext == FeedMessage \/ NormPop \/ NormPush \/ ProcPop

MainSpec == MainInit /\ [][MainNext]_vars

(***************************************************************************)
(* SeqLock: one thread calls write, another calls read.  Every load of     *)
(* sequence reads its latest store; data is assigned and copied one        *)
(* element at a time.                                                      *)
(***************************************************************************)
\* the values sequence can take, which are also the values an
\* uninitialized seq1 or seq2 can hold
LockSeqValues == 0..(2 * MaxLockCalls)

\* the arguments of the n-th write
LockArg(n, k) == 10 * n * (k + 1)

\* seq1 & 1
OddSeq(s) == s % 2 = 1

\* producer_seqlock: seqlock.write(a, b, c, d)
LockWriteCall ==
  /\ wlpc = "idle"
  /\ writes < MaxLockCalls
  /\ wlpc' = "L146"
  /\ UNCHANGED <<sequence, data, seq, wk, writes, rlpc, seq1, seq2, result,
                 rk, copied, loaded, reads>>
  /\ UNCHANGED nonLockVars

\* line 146: seq = sequence.load(relaxed)
LockWriteLoad ==
  /\ wlpc = "L146"
  /\ seq' = sequence
  /\ wlpc' = "L147"
  /\ UNCHANGED <<sequence, data, wk, writes, rlpc, seq1, seq2, result, rk,
                 copied, loaded, reads>>
  /\ UNCHANGED nonLockVars

\* line 147: sequence.store(seq + 1, release)
LockWriteOdd ==
  /\ wlpc = "L147"
  /\ sequence' = seq + 1
  /\ wk' = 0
  /\ wlpc' = "L150"
  /\ UNCHANGED <<data, seq, writes, rlpc, seq1, seq2, result, rk, copied,
                 loaded, reads>>
  /\ UNCHANGED nonLockVars

\* lines 150-153: data[0] = a; ... data[3] = d
LockWriteData ==
  /\ wlpc = "L150"
  /\ data' = [data EXCEPT ![wk] = LockArg(writes + 1, wk)]
  /\ wk' = wk + 1
  /\ wlpc' = IF wk + 1 = DataLen THEN "L156" ELSE "L150"
  /\ UNCHANGED <<sequence, seq, writes, rlpc, seq1, seq2, result, rk, copied,
                 loaded, reads>>
  /\ UNCHANGED nonLockVars

\* line 156: sequence.store(seq + 2, release), and write returns
LockWriteEven ==
  /\ wlpc = "L156"
  /\ sequence' = seq + 2
  /\ writes' = writes + 1
  /\ wlpc' = "idle"
  /\ UNCHANGED <<data, seq, wk, rlpc, seq1, seq2, result, rk, copied, loaded,
                 reads>>
  /\ UNCHANGED nonLockVars

\* the values an element of the caller's array can hold before the copy
LockStale == {0, LockArg(1, 0)}

\* consumer_seqlock: int result[4]; seqlock.read(result); line 160 declares
\* seq1 and seq2 without a value, as line 187 does for result
LockReadCall ==
  /\ rlpc = "idle"
  /\ reads < MaxLockCalls
  /\ seq1' \in LockSeqValues
  /\ seq2' \in LockSeqValues
  /\ result' \in [DataIdx -> LockStale]
  /\ copied' = FALSE
  /\ rlpc' = "L162"
  /\ UNCHANGED <<sequence, data, wlpc, seq, wk, writes, rk, loaded, reads>>
  /\ UNCHANGED nonLockVars

\* line 162: seq1 = sequence.load(acquire), the start of a pass of the loop
LockReadSeq1 ==
  /\ rlpc = "L162"
  /\ seq1' = sequence
  /\ loaded' = sequence
  /\ copied' = FALSE
  /\ rlpc' = "L163"
  /\ UNCHANGED <<sequence, data, wlpc, seq, wk, writes, seq2, result, rk,
                 reads>>
  /\ UNCHANGED nonLockVars

\* lines 163-167: if (seq1 & 1) { yield(); continue; } -- continue in a
\* do-while statement goes to the test of line 174
LockReadTestOdd ==
  /\ rlpc = "L163"
  /\ rlpc' = IF OddSeq(seq1) THEN "L174" ELSE "L170"
  /\ rk' = 0
  /\ UNCHANGED <<sequence, data, wlpc, seq, wk, writes, seq1, seq2, result,
                 copied, loaded, reads>>
  /\ UNCHANGED nonLockVars

\* line 170: std::memcpy(result, data, sizeof(int) * 4)
LockReadCopy ==
  /\ rlpc = "L170"
  /\ result' = [result EXCEPT ![rk] = data[rk]]
  /\ rk' = rk + 1
  /\ copied' = (rk + 1 = DataLen)
  /\ rlpc' = IF rk + 1 = DataLen THEN "L173" ELSE "L170"
  /\ UNCHANGED <<sequence, data, wlpc, seq, wk, writes, seq1, seq2, loaded,
                 reads>>
  /\ UNCHANGED nonLockVars

\* line 173: seq2 = sequence.load(acquire)
LockReadSeq2 ==
  /\ rlpc = "L173"
  /\ seq2' = sequence
  /\ loaded' = sequence
  /\ rlpc' = "L174"
  /\ UNCHANGED <<sequence, data, wlpc, seq, wk, writes, seq1, result, rk,
                 copied, reads>>
  /\ UNCHANGED nonLockVars

\* line 174: while (seq1 != seq2)
LockReadWhile ==
  /\ rlpc = "L174"
  /\ rlpc' = IF seq1 # seq2 THEN "L162" ELSE "L176"
  /\ UNCHANGED <<sequence, data, wlpc, seq, wk, writes, seq1, seq2, result,
                 rk, copied, loaded, reads>>
  /\ UNCHANGED nonLockVars

\* line 176: return true
LockReadReturn ==
  /\ rlpc = "L176"
  /\ reads' = reads + 1
  /\ rlpc' = "idle"
  /\ UNCHANGED <<sequence, data, wlpc, seq, wk, writes, seq1, seq2, result,
                 rk, copied, loaded>>
  /\ UNCHANGED nonLockVars

LockNext ==
  \/ LockWriteCall \/ LockWriteLoad \/ LockWriteOdd \/ LockWriteData
  \/ LockWriteEven
  \/ LockReadCall \/ LockReadSeq1 \/ LockReadTestOdd \/ LockReadCopy
  \/ LockReadSeq2 \/ LockReadWhile \/ LockReadReturn

LockSpec == LockInit /\ [][LockNext]_vars

(***************************************************************************)
(* The Asymmetric Barrier benchmark: the producer thread runs              *)
(* producer_barrier and barrier_sync.reset BenchRounds times, the          *)
(* consumer thread runs consumer_barrier BenchRounds times.  Every load    *)
(* reads the latest store.                                                 *)
(***************************************************************************)
\* the position of a thread after a round: the loop of the lambda ends after
\* benchmark_rounds rounds
BarAfterRound(done, first) == IF done = BenchRounds THEN "done" ELSE first

\* line 206: producer_ready.store(true, release)
BarProducerArrive ==
  /\ bppc = "L206"
  /\ producer_ready' = TRUE
  /\ bppc' = "L207"
  /\ UNCHANGED <<consumer_ready, bpround, bcpc, bcround>>
  /\ UNCHANGED nonBarVars

\* line 207: while (!consumer_ready.load(acquire)) pause
BarProducerWait ==
  /\ bppc = "L207"
  /\ bppc' = IF consumer_ready THEN "L231" ELSE "L207"
  /\ UNCHANGED <<producer_ready, consumer_ready, bpround, bcpc, bcround>>
  /\ UNCHANGED nonBarVars

\* reset, line 231: producer_ready.store(false, relaxed)
BarResetProducer ==
  /\ bppc = "L231"
  /\ producer_ready' = FALSE
  /\ bppc' = "L232"
  /\ UNCHANGED <<consumer_ready, bpround, bcpc, bcround>>
  /\ UNCHANGED nonBarVars

\* reset, line 232: consumer_ready.store(false, relaxed), the end of a round
\* of the producer thread
BarResetConsumer ==
  /\ bppc = "L232"
  /\ consumer_ready' = FALSE
  /\ bpround' = bpround + 1
  /\ bppc' = BarAfterRound(bpround + 1, "L206")
  /\ UNCHANGED <<producer_ready, bcpc, bcround>>
  /\ UNCHANGED nonBarVars

\* line 219: consumer_ready.store(true, release)
BarConsumerArrive ==
  /\ bcpc = "L219"
  /\ consumer_ready' = TRUE
  /\ bcpc' = "L220"
  /\ UNCHANGED <<producer_ready, bppc, bpround, bcround>>
  /\ UNCHANGED nonBarVars

\* line 220: while (!producer_ready.load(acquire)) pause; consumer_barrier
\* then returns true, the end of a round of the consumer thread
BarConsumerWait ==
  /\ bcpc = "L220"
  /\ bcround' = IF producer_ready THEN bcround + 1 ELSE bcround
  /\ bcpc' = IF producer_ready THEN BarAfterRound(bcround + 1, "L219")
                               ELSE "L220"
  /\ UNCHANGED <<producer_ready, consumer_ready, bppc, bpround>>
  /\ UNCHANGED nonBarVars

BarProducer ==
  BarProducerArrive \/ BarProducerWait \/ BarResetProducer \/ BarResetConsumer

BarConsumer == BarConsumerArrive \/ BarConsumerWait

BarNext == BarProducer \/ BarConsumer

\* both threads are scheduled again and again
BarFair == WF_vars(BarProducer) /\ WF_vars(BarConsumer)

BarSpec == BarInit /\ [][BarNext]_vars /\ BarFair

(***************************************************************************)
(* The Acquire-Release benchmark: the producer thread runs                 *)
(* producer_acq_rel and ready.store(false) BenchRounds times, the consumer *)
(* thread calls consumer_acq_rel until it has returned true BenchRounds    *)
(* times.  A load reads any store that is not older than what the thread   *)
(* has already seen; an acquire load of a release store also brings the    *)
(* store to data that was released.                                        *)
(***************************************************************************)
\* the value producer_acq_rel stores to data
Answer == 42

\* a mutant of ReleaseStore: the store to ready releases nothing
ReleaseStore_relaxed(v) == [val |-> v, rel |-> NoRelease]
\* ready.store(v, release): the store releases the producer's latest store
\* to data
ReleaseStore(v) == [val |-> v, rel |-> Len(fdata)]

\* ready.store(v, relaxed)
RelaxedStore(v) == [val |-> v, rel |-> NoRelease]

\* line 40: data.store(42, relaxed)
FlagStoreData ==
  /\ fppc = "L40"
  /\ fdata' = Append(fdata, Answer)
  /\ fppc' = "L41"
  /\ UNCHANGED <<ready, fpround, fcpc, fcround, fcvr, fcvd, fcr, fcd>>
  /\ UNCHANGED nonFlagVars

\* line 41: ready.store(true, release)
FlagStoreReady ==
  /\ fppc = "L41"
  /\ ready' = Append(ready, ReleaseStore(TRUE))
  /\ fppc' = "L348"
  /\ UNCHANGED <<fdata, fpround, fcpc, fcround, fcvr, fcvd, fcr, fcd>>
  /\ UNCHANGED nonFlagVars

\* line 348: ready.store(false, relaxed), the end of a round of the
\* producer thread
FlagResetReady ==
  /\ fppc = "L348"
  /\ ready' = Append(ready, RelaxedStore(FALSE))
  /\ fpround' = fpround + 1
  /\ fppc' = IF fpround + 1 = BenchRounds THEN "done" ELSE "L40"
  /\ UNCHANGED <<fdata, fcpc, fcround, fcvr, fcvd, fcr, fcd>>
  /\ UNCHANGED nonFlagVars

\* lines 48-50: r = ready.load(acquire); d = 0; if (r); a call that loads
\* false returns false and the loop of the lambda calls again
FlagLoadReady ==
  /\ fcpc = "L48"
  /\ \E i \in fcvr..Len(ready) :
       /\ fcr' = ready[i].val
       /\ fcvr' = i
       /\ fcvd' = Max(fcvd, ready[i].rel)
       /\ fcpc' = IF ready[i].val THEN "L51" ELSE "L48"
  /\ fcd' = 0
  /\ UNCHANGED <<ready, fdata, fppc, fpround, fcround>>
  /\ UNCHANGED nonFlagVars

\* line 51: d = data.load(relaxed)
FlagLoadData ==
  /\ fcpc = "L51"
  /\ \E j \in fcvd..Len(fdata) :
       /\ fcd' = fdata[j]
       /\ fcvd' = j
  /\ fcpc' = "L52"
  /\ UNCHANGED <<ready, fdata, fppc, fpround, fcround, fcvr, fcr>>
  /\ UNCHANGED nonFlagVars

\* lines 52-54: print d and return r, the end of a round of the consumer
\* thread
FlagReturn ==
  /\ fcpc = "L52"
  /\ fcround' = fcround + 1
  /\ fcpc' = IF fcround + 1 = BenchRounds THEN "done" ELSE "L48"
  /\ UNCHANGED <<ready, fdata, fppc, fpround, fcvr, fcvd, fcr, fcd>>
  /\ UNCHANGED nonFlagVars

FlagProducer == FlagStoreData \/ FlagStoreReady \/ FlagResetReady

FlagConsumer == FlagLoadReady \/ FlagLoadData \/ FlagReturn

FlagNext == FlagProducer \/ FlagConsumer

\* both threads are scheduled again and again
FlagFair == WF_vars(FlagProducer) /\ WF_vars(FlagConsumer)

FlagSpec == FlagInit /\ [][FlagNext]_vars /\ FlagFair

(***************************************************************************)
(* The Consume Ordering benchmark: the producer thread runs                *)
(* producer_consume and published_node.store(nullptr) BenchRounds times,   *)
(* the consumer thread calls consumer_consume until it has returned true   *)
(* BenchRounds times.  Every load reads the latest store; every new Node   *)
(* is a Node that did not exist before.                                    *)
(***************************************************************************)
\* line 91: n = new Node{42, nullptr}
NodeNew ==
  /\ nppc = "L91"
  /\ created' = created + 1
  /\ npn' = created + 1
  /\ heap' = heap \cup {created + 1}
  /\ nppc' = "L94"
  /\ UNCHANGED <<published_node, uses, npround, ncpc, ncn, ncround>>
  /\ UNCHANGED nonNodeVars

\* line 94: published_node.store(n, release)
NodePublish ==
  /\ nppc = "L94"
  /\ published_node' = npn
  /\ nppc' = "L372"
  /\ UNCHANGED <<heap, created, uses, npn, npround, ncpc, ncn, ncround>>
  /\ UNCHANGED nonNodeVars

\* line 372: published_node.store(nullptr, relaxed), the end of a round of
\* the producer thread
NodeClear ==
  /\ nppc = "L372"
  /\ published_node' = nullptr
  /\ npround' = npround + 1
  /\ nppc' = IF npround + 1 = BenchRounds THEN "done" ELSE "L91"
  /\ UNCHANGED <<heap, created, uses, npn, ncpc, ncn, ncround>>
  /\ UNCHANGED nonNodeVars

\* lines 100-102: n = published_node.load(consume); if (n); a call that
\* loads nullptr returns false and the loop of the lambda calls again
NodeLoad ==
  /\ ncpc = "L100"
  /\ ncn' = published_node
  /\ ncpc' = IF published_node # nullptr THEN "L105" ELSE "L100"
  /\ UNCHANGED <<published_node, heap, created, uses, nppc, npn, npround,
                 ncround>>
  /\ UNCHANGED nonNodeVars

\* line 105: read n->value
NodeRead ==
  /\ ncpc = "L105"
  /\ uses' = [uses EXCEPT ![ncn] = @ + 1]
  /\ ncpc' = "L106"
  /\ UNCHANGED <<published_node, heap, created, nppc, npn, npround, ncn,
                 ncround>>
  /\ UNCHANGED nonNodeVars

\* lines 106-107: delete n; return true, the end of a round of the consumer
\* thread
NodeDelete ==
  /\ ncpc = "L106"
  /\ heap' = heap \ {ncn}
  /\ ncround' = ncround + 1
  /\ ncpc' = IF ncround + 1 = BenchRounds THEN "done" ELSE "L100"
  /\ UNCHANGED <<published_node, created, uses, nppc, npn, npround, ncn>>
  /\ UNCHANGED nonNodeVars

NodeNext ==
  \/ NodeNew \/ NodePublish \/ NodeClear
  \/ NodeLoad \/ NodeRead \/ NodeDelete

NodeSpec == NodeInit /\ [][NodeNext]_vars

(***************************************************************************)
(* The counter benchmark: kNumThreads threads run increment_counter, each  *)
(* on its own element of counters.                                         *)
(***************************************************************************)
\* the number of fetch_add(1) in the body of the first loop
Unroll == 8

\* lines 296-306: one test of  i < kIterations  of the first loop and, if it
\* holds, one pass: eight fetch_add(1) and i += 8; if not, the second loop
\* starts with  i = (kIterations / 8) * 8  (line 309)
CntUnrolled(t) ==
  /\ ipc[t] = "L296"
  /\ IF iv[t] < kIterations
       THEN /\ counters' = [counters EXCEPT ![t] = @ + Unroll]
            /\ iv' = [iv EXCEPT ![t] = @ + Unroll]
            /\ ipc' = ipc
       ELSE /\ counters' = counters
            /\ iv' = [iv EXCEPT ![t] = (kIterations \div Unroll) * Unroll]
            /\ ipc' = [ipc EXCEPT ![t] = "L309"]
  /\ UNCHANGED kIterations
  /\ UNCHANGED nonCntVars

\* lines 309-311: one test of  i < kIterations  of the second loop and, if
\* it holds, one pass: one fetch_add(1) and i++; if not, the thread ends
CntRemainder(t) ==
  /\ ipc[t] = "L309"
  /\ IF iv[t] < kIterations
       THEN /\ counters' = [counters EXCEPT ![t] = @ + 1]
            /\ iv' = [iv EXCEPT ![t] = @ + 1]
            /\ ipc' = ipc
       ELSE /\ counters' = counters
            /\ iv' = iv
            /\ ipc' = [ipc EXCEPT ![t] = "done"]
  /\ UNCHANGED kIterations
  /\ UNCHANGED nonCntVars

CntAnyUnrolled == \E t \in CntThreads : CntUnrolled(t)

CntAnyRemainder == \E t \in CntThreads : CntRemainder(t)

CntNext == CntAnyUnrolled \/ CntAnyRemainder

CntSpec == CntInit /\ [][CntNext]_vars

(***************************************************************************)
(* Properties.                                                             *)
(***************************************************************************)
IsPrefix(a, b) ==
  /\ Len(a) <= Len(b)
  /\ \A i \in 1..Len(a) : a[i] = b[i]

\* the producer (resp. the consumer) is inside a call that has not returned
InPush == ppc \in {"L11", "L14", "L18", "L19"}
InPop == cpc \in {"L24", "L26", "L30", "L31"}

\* C1: with one producer and one consumer, in every interleaving of the
\* steps of TryPush and TryPop, the values the successful pops have returned
\* are a prefix of the values the successful pushes were given.
C1_FifoPrefix ==
  /\ IsPrefix(popped, pushed)
  /\ (cpc = "ret" /\ cret) =>
       (Len(popped) > 0 /\ output = popped[Len(popped)])

\* C1 witness: the consumer has popped at least Size items, so that both
\* cursors have wrapped, while both threads are inside a call.
C1_Witness == Len(popped) >= Size /\ InPush /\ InPop

\* both loops of the pipeline test have ended, and the consumer has popped
\* ticks 1..NumTicks in the order they were pushed
PipeDone ==
  /\ pi > NumTicks /\ ci > NumTicks
  /\ ppc = "idle" /\ cpc = "idle"
  /\ pushed = [i \in 1..NumTicks |-> i]
  /\ popped = [i \in 1..NumTicks |-> i]

\* C2: in the pipeline test with NumTicks > Size ticks, under fair
\* scheduling of both threads, both loops terminate and the consumer has
\* popped ticks 1..NumTicks in push order.
C2_PipelineCompletes == <>PipeDone

\* C2 witness: the state in which both loops have ended.
C2_Witness == PipeDone /\ NumTicks > Size

\* a TryPush has returned that found the buffer full on entry, the consumer
\* being outside the buffer from its entry to its return
C3_PushFullPre ==
  /\ ppc = "ret" /\ psnap.quiet
  /\ cpc = "idle" /\ Len(popped) = psnap.n
  /\ (psnap.w + 1) % Size = psnap.r

\* C3: a TryPush that finds the buffer full, (write_cursor + 1) mod N =
\* read_cursor, returns false and leaves both cursors and every slot as they
\* were; the item is in no slot.
C3_PushFull ==
  C3_PushFullPre =>
    /\ pret = FALSE
    /\ write_idx = psnap.w
    /\ read_idx = psnap.r
    /\ buffer = psnap.buf
    /\ \A k \in Slots : buffer[k] # item

\* C3 witness: a TryPush has returned from a full buffer.
C3_Witness == C3_PushFullPre /\ ~pret

\* a TryPush has returned that found the buffer not full on entry, the
\* consumer being outside the buffer from its entry to its return and its
\* latest read_idx_ store visible to the producer
C4_PushRoomPre ==
  /\ ppc = "ret" /\ psnap.quiet /\ psnap.sync
  /\ cpc = "idle" /\ Len(popped) = psnap.n
  /\ (psnap.w + 1) % Size # psnap.r

\* C4: a TryPush that finds the buffer not full stores the item in the slot
\* at write_cursor, advances write_cursor by one mod N and returns true;
\* read_cursor and the other slots are as they were.
C4_PushRoom ==
  C4_PushRoomPre =>
    /\ pret = TRUE
    /\ buffer = [psnap.buf EXCEPT ![psnap.w] = item]
    /\ write_idx = (psnap.w + 1) % Size
    /\ read_idx = psnap.r

\* C4 witness: a TryPush has returned true after wrapping write_cursor to 0.
C4_Witness == C4_PushRoomPre /\ pret /\ psnap.w = Size - 1

\* a TryPop has returned that found the buffer empty on entry, the producer
\* being outside the buffer from its entry to its return
C5_PopEmptyPre ==
  /\ cpc = "ret" /\ csnap.quiet
  /\ ppc = "idle" /\ Len(pushed) = csnap.n
  /\ csnap.r = csnap.w

\* C5: a TryPop that finds the buffer empty, read_cursor = write_cursor,
\* returns false and leaves both cursors, every slot and the caller's
\* output location as they were.
C5_PopEmpty ==
  C5_PopEmptyPre =>
    /\ cret = FALSE
    /\ read_idx = csnap.r
    /\ write_idx = csnap.w
    /\ buffer = csnap.buf
    /\ output = csnap.out

\* C5 witness: a TryPop has returned from a buffer emptied after use.
C5_Witness == C5_PopEmptyPre /\ ~cret /\ Len(popped) > 0

\* a TryPop has returned that found the buffer not empty on entry, the
\* producer being outside the buffer from its entry to its return and its
\* latest write_idx_ store visible to the consumer
C6_PopItemPre ==
  /\ cpc = "ret" /\ csnap.quiet /\ csnap.sync
  /\ ppc = "idle" /\ Len(pushed) = csnap.n
  /\ csnap.r # csnap.w

\* C6: a TryPop that finds the buffer not empty returns true, delivers the
\* value that was in the slot at read_cursor, and advances read_cursor by
\* one mod N; write_cursor is as it was.
C6_PopItem ==
  C6_PopItemPre =>
    /\ cret = TRUE
    /\ output = csnap.buf[csnap.r]
    /\ read_idx = (csnap.r + 1) % Size
    /\ write_idx = csnap.w

\* C6 witness: a TryPop has returned true after wrapping read_cursor to 0.
C6_Witness == C6_PopItemPre /\ cret /\ csnap.r = Size - 1

\* C7: at most N - 1 elements are held: the pushes outnumber the pops by at
\* most N - 1, and as long as no pop has succeeded the TryPush calls return
\* true up to the (N - 1)-th success and false from then on.
C7_CapacityBound ==
  /\ Len(pushed) - Len(popped) <= Size - 1
  /\ (ppc = "ret" /\ Len(popped) = 0) =>
       /\ pret = TRUE => Len(pushed) <= Size - 1
       /\ pret = FALSE => Len(pushed) = Size - 1

\* C7 witness: the push that follows N - 1 successes has returned false.
C7_Witness ==
  /\ ppc = "ret" /\ ~pret
  /\ Len(popped) = 0 /\ Len(pushed) = Size - 1

\* C8: the producer is never between its full test and its write_cursor
\* store for the slot for which the consumer is between its empty test and
\* its read_cursor store; no access of a slot races with another.
C8_SlotExclusive ==
  /\ ~(ppc \in {"L18", "L19"} /\ cpc \in {"L30", "L31"}
       /\ current_write = current_read)
  /\ ~race

\* C8 witness: both threads are in those windows at once on a second lap.
C8_Witness ==
  /\ ppc \in {"L18", "L19"} /\ cpc \in {"L30", "L31"}
  /\ Len(pushed) >= Size

\* C9: when the consumer has seen write_cursor past slot k and reads slot k,
\* the write of that slot happens-before the read and the slot holds the
\* item of the push that filled it: not a pending write, not the content of
\* an earlier lap, not what an earlier move left.
C9_ReadsPublished ==
  /\ cpc = "L30" =>
       /\ Len(pushed) > Len(popped)
       /\ view["cons"][current_read] = bts[current_read]
       /\ buffer[current_read] = pushed[Len(popped) + 1]
       /\ ~(ppc = "L18" /\ current_write = current_read)
  /\ cpc = "L31" =>
       /\ Len(pushed) > Len(popped)
       /\ output = pushed[Len(popped) + 1]
       /\ output \notin {Default, Moved}

\* C9 witness: the consumer has read a slot on its second lap.
C9_Witness == cpc = "L31" /\ Len(popped) >= Size

\* C10: a call of TryPush or TryPop takes at most four steps of its own, and
\* its next step can be taken whatever the other thread is doing.
C10_NonBlocking ==
  /\ psteps <= 4 /\ csteps <= 4
  /\ InPush => (psteps < 4 /\ ENABLED ProducerStep)
  /\ InPop => (csteps < 4 /\ ENABLED ConsumerStep)

\* C10 witness: TryPush has returned false while the consumer stands inside
\* TryPop, between its move and its read_cursor store.
C10_Witness == ppc = "ret" /\ ~pret /\ psteps = 2 /\ cpc = "L31"

\* C14: the constructed buffer has both cursors at 0, and as long as no
\* TryPush has succeeded the cursors stay there and no TryPop gets past its
\* empty test: every TryPop returns false.
C14_FreshEmpty ==
  Len(pushed) = 0 =>
    /\ write_idx = 0 /\ read_idx = 0
    /\ Len(popped) = 0
    /\ cpc \notin {"L30", "L31"}
    /\ cpc = "ret" => ~cret

\* C14 witness: TryPop has returned false while the first TryPush has
\* written its slot and not yet stored write_cursor.
C14_Witness == Len(pushed) = 0 /\ cpc = "ret" /\ ~cret /\ ppc = "L19"

\* C15: write_cursor is stored only by TryPush, at its last step before
\* returning true, and read_cursor only by TryPop, likewise; no step of
\* TryPush, on its success path or on its failure path, stores read_cursor,
\* and no step of TryPop stores write_cursor.
C15_CursorOwners ==
  [][ /\ Last(wq') # Last(wq) =>
           (ppc = "L19" /\ ppc' = "ret" /\ pret' /\ cpc' = cpc)
      /\ Last(rq') # Last(rq) =>
           (cpc = "L31" /\ cpc' = "ret" /\ cret' /\ ppc' = ppc)
      /\ ppc' # ppc => (read_idx' = read_idx /\ Last(rq') = Last(rq))
      /\ cpc' # cpc => (write_idx' = write_idx /\ Last(wq') = Last(wq))
    ]_vars

\* C15 witness: some TryPop has succeeded, the TryPop after it has returned
\* false, and a TryPush has returned false as well.
C15_Witness ==
  /\ Len(popped) >= 1
  /\ cpc = "ret" /\ ~cret
  /\ ppc = "ret" /\ ~pret

\* C16: the number of unconsumed elements (pushes completed by their
\* write_cursor store minus pops completed by their read_cursor store) is
\* zero exactly when read_cursor equals write_cursor.
C16_EmptyIff ==
  (Len(pushed) - Len(popped) = 0) <=> (read_idx = write_idx)

\* C16 witness: everything pushed has been popped, the cursors have left 0,
\* and a TryPush has written its slot without having stored write_cursor.
C16_Witness ==
  /\ Len(popped) >= 1 /\ Len(pushed) = Len(popped)
  /\ ppc = "L19"

\* C17: the number of unconsumed elements is N - 1 exactly when
\* (write_cursor + 1) mod N equals read_cursor.
C17_FullIff ==
  (Len(pushed) - Len(popped) = Size - 1) <=>
    ((write_idx + 1) % Size = read_idx)

\* C17 witness: the buffer is full after some pops, and a TryPop has moved
\* its item out without having stored read_cursor.
C17_Witness ==
  /\ Len(popped) >= 1 /\ Len(pushed) - Len(popped) = Size - 1
  /\ cpc = "L31"

\* the cursors, every store made to them and every index used for a slot
\* lie in 0..N-1, and buffer_ has exactly the slots 0..N-1
CursorsInRange ==
  /\ \A i \in DOMAIN wq : wq[i].val \in 0..(Size - 1)
  /\ \A i \in DOMAIN rq : rq[i].val \in 0..(Size - 1)
  /\ ppc \in {"L14", "L18", "L19"} =>
       (current_write \in 0..(Size - 1) /\ next_write \in 0..(Size - 1))
  /\ cpc \in {"L26", "L30", "L31"} => current_read \in 0..(Size - 1)
  /\ DOMAIN buffer = 0..(Size - 1)

\* a successful TryPush moves write_cursor from i to (i + 1) mod N and a
\* successful TryPop moves read_cursor likewise; nothing else moves them
CursorsAdvance ==
  /\ Len(pushed') # Len(pushed) =>
       (current_write = write_idx /\ write_idx' = (write_idx + 1) % Size)
  /\ Len(popped') # Len(popped) =>
       (current_read = read_idx /\ read_idx' = (read_idx + 1) % Size)
  /\ write_idx' # write_idx => Len(pushed') = Len(pushed) + 1
  /\ read_idx' # read_idx => Len(popped') = Len(popped) + 1

\* C18: both cursors always lie in [0, N); each successful operation moves
\* its cursor from i to exactly (i + 1) mod N, so N - 1 is followed by 0;
\* every slot index used lies within the bounds of the array.
C18_CursorRange == []CursorsInRange /\ [][CursorsAdvance]_vars

\* C18 witness: both cursors have wrapped from N - 1 to 0 and moved on.
C18_Witness ==
  /\ Len(pushed) > Size /\ write_idx = 1
  /\ Len(popped) = Size /\ read_idx = 0

\* the consumer is outside TryPop before and after the step
ConsumerQuiet == cpc \in {"idle", "ret"} /\ cpc' \in {"idle", "ret"}

\* C21: once the buffer is full, as long as the consumer makes no TryPop,
\* no step changes a cursor or a slot, every TryPush that returns returns
\* false, and no TryPush gets past its full test; no race arises.
C21_FullStaysFull ==
  [][ (Len(pushed) - Len(popped) = Size - 1 /\ ConsumerQuiet) =>
        /\ wq' = wq \/ (Len(wq) > 1 /\ wq' = Tail(wq))
        /\ write_idx' = write_idx /\ read_idx' = read_idx
        /\ buffer' = buffer /\ bts' = bts
        /\ pushed' = pushed
        /\ race' = race
        /\ ppc' \notin {"L18", "L19"}
        /\ (ppc' = "ret" /\ ppc # "ret") => ~pret'
    ]_vars

\* C21 witness: the buffer is full again after a pop, the consumer is outside
\* TryPop, and a TryPush called after the buffer became full has returned
\* false.
C21_Witness ==
  /\ Len(pushed) - Len(popped) = Size - 1 /\ Len(popped) >= 1
  /\ cpc = "idle"
  /\ ppc = "ret" /\ ~pret /\ psnap.quiet /\ psnap.n = Len(popped)
  /\ (psnap.w + 1) % Size = psnap.r

\* a TryPush has returned; it was called while the consumer was outside
\* TryPop, after at least one successful TryPop, with one slot more than
\* the reserved one free (the buffer was full before the last pop), and the
\* consumer has made no call since
C22_AfterPopPre ==
  /\ ppc = "ret" /\ psnap.quiet
  /\ cpc = "idle" /\ Len(popped) = psnap.n
  /\ psnap.n >= 1
  /\ (psnap.w + 2) % Size = psnap.r

\* C22 as claimed: a TryPush that starts after a TryPop has returned true
\* reads a read_cursor at least as recent as the one that pop stored, so
\* it returns true when that pop made room in a full buffer.
C22_StartsAfterPop == C22_AfterPopPre => pret

\* C22 as amended: the same for a TryPush to which the read_cursor store of
\* that pop is visible when it starts.
C22_HappensAfterPop == (C22_AfterPopPre /\ psnap.sync) => pret

\* C22 witness: such a TryPush has returned true on the buffer's second lap.
C22_Witness ==
  C22_AfterPopPre /\ psnap.sync /\ pret /\ Len(pushed) > Size

\* C26: the number of completed pushes minus the number of completed pops
\* equals (write_cursor - read_cursor) mod N and lies in 0..N-1.
C26_CountIsCursorGap ==
  /\ Len(pushed) - Len(popped) = (write_idx - read_idx + Size) % Size
  /\ Len(pushed) - Len(popped) \in 0..(Size - 1)

\* C26 witness: write_cursor has wrapped around and is below read_cursor,
\* with two elements in the buffer.
C26_Witness ==
  /\ write_idx < read_idx
  /\ Len(pushed) - Len(popped) = 2

\* the step in which TryPush loads read_cursor and returns false, and the
\* step in which TryPop loads write_cursor and returns false
PushFails == ppc = "L14" /\ ppc' = "ret" /\ ~pret'
PopFails == cpc = "L26" /\ cpc' = "ret" /\ ~cret'

\* C27 as claimed: TryPush returns false only if the buffer holds N - 1
\* unconsumed elements at the instant of its load of read_cursor, TryPop
\* only if it holds none at the instant of its load of write_cursor.
C27_FailsOnlyAtLimit ==
  [][ /\ PushFails => Len(pushed) - Len(popped) = Size - 1
      /\ PopFails => Len(pushed) - Len(popped) = 0
    ]_vars

\* C27 as amended: the same, counting the pops whose read_cursor store is
\* visible to the producer at its load (all but the last Len(rq) - 1), and
\* the pushes whose write_cursor store is visible to the consumer at its
\* load (all but the last Len(wq) - 1).
C27_FailsOnlyAtSeenLimit ==
  [][ /\ PushFails =>
           Len(pushed) - (Len(popped) - (Len(rq) - 1)) = Size - 1
      /\ PopFails =>
           (Len(pushed) - (Len(wq) - 1)) - Len(popped) = 0
    ]_vars

\* C27 witness: TryPush has returned false although a pop has completed and
\* left room, the read_cursor store of that pop not being visible to the
\* producer yet.
C27_Witness ==
  /\ ppc = "ret" /\ ~pret
  /\ cpc = "idle" /\ Len(rq) = 2
  /\ Len(pushed) - Len(popped) = Size - 2

\* the content of the abstract FIFO queue: the items pushed and not popped,
\* operations taking effect at their cursor stores
AbsQueue == SubSeq(pushed, Len(popped) + 1, Len(pushed))

\* the content the ring buffer stands for: the slots from read_cursor up to
\* write_cursor, the item a TryPop has moved out and not yet released
\* counting as still held
RingContent ==
  [i \in 1..((write_idx - read_idx + Size) % Size) |->
     IF i = 1 /\ cpc = "L31"
     THEN output
     ELSE buffer[(read_idx + i - 1) % Size]]

\* a successful operation at its cursor store does what the queue does
SuccessAtStore ==
  /\ Len(pushed') # Len(pushed) =>
       (Len(AbsQueue) < Size - 1 /\ pret' /\ AbsQueue' = Append(AbsQueue, item))
  /\ Len(popped') # Len(popped) =>
       (Len(AbsQueue) > 0 /\ cret' /\ output = Head(AbsQueue)
        /\ AbsQueue' = Tail(AbsQueue))

\* C24 as claimed: the ring buffer maps to the abstract queue at every
\* step; a successful operation takes effect at its cursor store; a failed
\* one returns what the queue returns at the instant of its acquire load.
C24_Linearizable ==
  /\ [](RingContent = AbsQueue /\ Len(AbsQueue) <= Size - 1)
  /\ [][ /\ SuccessAtStore
         /\ PushFails => Len(AbsQueue) = Size - 1
         /\ PopFails => Len(AbsQueue) = 0
       ]_vars

\* C24 as amended: the same, a failed operation returning what the queue
\* returned when the cursor value it loaded was the latest one: the queue
\* with the pops not yet visible to the producer undone, or with the pushes
\* not yet visible to the consumer undone.
C24_LinearizableAsSeen ==
  /\ [](RingContent = AbsQueue /\ Len(AbsQueue) <= Size - 1)
  /\ [][ /\ SuccessAtStore
         /\ PushFails => Len(AbsQueue) + (Len(rq) - 1) = Size - 1
         /\ PopFails => Len(AbsQueue) - (Len(wq) - 1) = 0
       ]_vars

\* C24 witness: after a completed pop, a TryPush has written its slot and a
\* TryPop has moved its item out, neither having stored its cursor yet.
C24_Witness ==
  /\ Len(popped) >= 1
  /\ ppc = "L19" /\ cpc = "L31"

\* the number of accesses made to the slots 0..k
RECURSIVE SlotAccesses(_)
SlotAccesses(k) == IF k < 0 THEN 0 ELSE bts[k] + SlotAccesses(k - 1)

\* every call went through its lines in order: as many slot accesses were
\* made as operations succeeded or stand between their slot access and
\* their cursor store; a call that returned true took four steps, a call
\* that returned false two
AccessesCounted ==
  /\ SlotAccesses(Size - 1) =
       Len(pushed) + Len(popped)
         + (IF ppc = "L19" THEN 1 ELSE 0) + (IF cpc = "L31" THEN 1 ELSE 0)
  /\ ppc = "ret" => psteps = (IF pret THEN 4 ELSE 2)
  /\ cpc = "ret" => csteps = (IF cret THEN 4 ELSE 2)

\* a slot is accessed only by the write of line 18 and the move of line 30,
\* one slot at a time; a cursor is stored only by lines 19 and 31, which
\* come after that access and return true; a failing call does neither
AccessThenStore ==
  /\ bts' # bts =>
       \E k \in 0..(Size - 1) :
         /\ bts' = [bts EXCEPT ![k] = @ + 1]
         /\ \/ ppc = "L18" /\ ppc' = "L19" /\ k = current_write /\ cpc' = cpc
            \/ cpc = "L30" /\ cpc' = "L31" /\ k = current_read /\ ppc' = ppc
  /\ (ppc' = "L19" /\ ppc # "L19") => bts' # bts
  /\ (cpc' = "L31" /\ cpc # "L31") => bts' # bts
  /\ Last(wq') # Last(wq) =>
       (ppc = "L19" /\ ppc' = "ret" /\ pret' /\ wq' = Append(wq, Last(wq')))
  /\ Last(rq') # Last(rq) =>
       (cpc = "L31" /\ cpc' = "ret" /\ cret' /\ rq' = Append(rq, Last(rq')))
  /\ (ppc' = "ret" /\ ppc # "ret" /\ pret') => Last(wq') # Last(wq)
  /\ (cpc' = "ret" /\ cpc # "ret" /\ cret') => Last(rq') # Last(rq)
  /\ (ppc' = "ret" /\ ppc # "ret" /\ ~pret') =>
       (bts' = bts /\ buffer' = buffer /\ wq' = wq /\ rq' = rq)
  /\ (cpc' = "ret" /\ cpc # "ret" /\ ~cret') =>
       (bts' = bts /\ buffer' = buffer /\ wq' = wq /\ rq' = rq)

\* C25: a successful TryPush writes its slot once and then stores
\* write_cursor once; a successful TryPop moves its slot out once and then
\* stores read_cursor once; a failed call accesses no slot and stores no
\* cursor.
C25_AccessBeforeStore == []AccessesCounted /\ [][AccessThenStore]_vars

\* C25 witness: a TryPush has returned false, a TryPop has returned true,
\* and earlier calls of both kinds have succeeded.
C25_Witness ==
  /\ ppc = "ret" /\ ~pret
  /\ cpc = "ret" /\ cret
  /\ Len(popped) >= 2

\* C23: the cache line of read_idx_ holds no location the producer writes
\* (not write_idx_, not the slot TryPush writes), and the cache line of
\* write_idx_ holds no location the consumer writes (not read_idx_, not
\* the slot TryPop moves from).
C23_NoFalseSharing ==
  /\ LinesOf(OffWriteIdx, IndexSize) \cap LinesOf(OffReadIdx, IndexSize) = {}
  /\ ppc = "L18" =>
       LinesOf(SlotOff(current_write), TickSize)
         \cap LinesOf(OffReadIdx, IndexSize) = {}
  /\ cpc = "L30" =>
       LinesOf(SlotOff(current_read), TickSize)
         \cap LinesOf(OffWriteIdx, IndexSize) = {}

(***************************************************************************)
(* Properties of one thread using the buffer by itself.                    *)
(***************************************************************************)
\* the items between read_idx_ and write_idx_, oldest first
SeqLive ==
  [i \in 1..((sw - sr + sN) % sN) |-> sbuf[(sr + i - 1) % sN]]

\* the multiset of the elements of a sequence
BagOfSeq(q) ==
  [e \in {q[i] : i \in DOMAIN q} |->
     Cardinality({i \in DOMAIN q : q[i] = e})]

\* C11: starting from an empty buffer, k <= N - 1 successful pushes of
\* p1..pk with no pop between them, followed by pops: the i-th pop returns
\* true with pi, and after the k-th pop the buffer is empty.
C11_FillDrain ==
  fd.phase = "drain" =>
    /\ Len(fd.ins) <= sN - 1
    /\ Len(fd.outs) <= Len(fd.ins)
    /\ \A i \in 1..Len(fd.outs) :
         fd.outs[i] = [ok |-> TRUE, val |-> fd.ins[i]]
    /\ Len(fd.outs) = Len(fd.ins) => (sr = sw /\ SeqLive = <<>>)

\* C11 witness: N - 1 items of two kinds were pushed from an empty buffer
\* whose cursors stood at 2, and all were popped, across the wrap-around.
C11_Witness ==
  /\ sN >= 4 /\ fd.phase = "drain"
  /\ Len(fd.ins) = sN - 1 /\ Len(fd.outs) = Len(fd.ins)
  /\ fd.ins[1] # fd.ins[2]
  /\ sr = 1

\* C12: a successful pop from a full buffer followed by a push: the push
\* returns true, the buffer is full again, and the item popped together
\* with the items in the buffer are the items that were held plus the item
\* pushed, as multisets.
C12_PopPushCycle ==
  cyc.st = "pushed" =>
    /\ cyc.ok
    /\ (sw + 1) % sN = sr
    /\ Len(SeqLive) = sN - 1
    /\ BagOfSeq(<<cyc.x>> \o SeqLive) = BagOfSeq(Append(cyc.before, cyc.v))

\* C12 witness: such a cycle on a buffer of capacity 3 or more, where the
\* item pushed is not the item popped and the write cursor wrapped to 0.
C12_Witness ==
  /\ cyc.st = "pushed" /\ sN >= 3
  /\ cyc.x # cyc.v
  /\ sw = 0

\* C13: on a buffer of capacity 4, for any items A..F: push A, B, C return
\* true; push D returns false; two pops return A, B; push D, E return true;
\* push F returns false; three pops return C, D, E; one more pop returns
\* false.
C13_Scenario ==
  (sN = 4 /\ scn.pos >= 1) =>
    /\ slast.op = ScriptOp[scn.pos]
    /\ slast.ok = ScriptOk[scn.pos]
    /\ ScriptOut[scn.pos] > 0 => sout = scn.its[ScriptOut[scn.pos]]

\* C13 witness: the whole scenario was run, with C and D different items.
C13_Witness ==
  /\ sN = 4 /\ scn.pos = Len(ScriptOp)
  /\ scn.its[3] # scn.its[4]
\* C19: a buffer of capacity 1 never holds an element: every TryPush and
\* every TryPop returns false, the cursors stay at 0, and neither the slot
\* nor the caller's output is ever written.
C19_CapacityOne ==
  sN = 1 =>
    /\ slast.op # "none" => ~slast.ok
    /\ sw = 0 /\ sr = 0
    /\ sbuf = [k \in {0} |-> Default]
    /\ sout = Default

\* C19 witness: TryPush was called on the buffer of capacity 1.
C19_Witness == sN = 1 /\ slast.op = "push"

\* C20: for every capacity N >= 2, a power of two or not, every call of
\* every sequence of calls made by one thread returns what the same call
\* returns on a FIFO queue of capacity N - 1: the same success or failure
\* and, for a successful pop, the same item; the items between the cursors
\* are the items of the queue.
C20_MatchesReference ==
  (sN >= 2 /\ slast.op # "none") =>
    /\ slast.ok = slast.refok
    /\ (slast.op = "pop" /\ slast.ok) => sout = slast.refval
    /\ SeqLive = refq

\* C20 witness: on a buffer of capacity 3 both cursors have wrapped around
\* at least twice, and a pop has just returned an item.
C20_Witness ==
  /\ sN = 3 /\ laps.w = 2 /\ laps.r = 2
  /\ slast.op = "pop" /\ slast.ok

(***************************************************************************)
(* Properties of two threads pushing to one buffer.                        *)
(***************************************************************************)
\* both threads have returned true from calls that loaded write_idx_ with
\* no store to it in between
BothPushed ==
  /\ tpc[1] = "ret" /\ tloc[1].ret
  /\ tpc[2] = "ret" /\ tloc[2].ret
  /\ tloc[1].seen = tloc[2].seen

\* the item is in a slot between read_cursor and write_cursor, where
\* TryPop will find it, or has been returned by TryPop
MisPresent(v) ==
  \/ \E i \in 1..((tw - tr + Size) % Size) : tbuf[(tr + i - 1) % Size] = v
  \/ \E i \in 1..Len(tpopped) : tpopped[i] = v

\* C28: two threads in TryPush at once are not detected: each can always
\* take its next step; and when both have returned true from calls that
\* loaded the same write_cursor, they wrote the same slot and stored the
\* same write_cursor value, so write_cursor moved by one only and at most
\* one of the two items is popped or waits to be popped.
C28_LostPush ==
  /\ \A p \in MisThreads :
       tpc[p] \in {"L11", "L14", "L18", "L19"} => ENABLED MisStep(p)
  /\ BothPushed =>
       /\ tloc[1].cw = tloc[2].cw
       /\ tloc[1].nw = tloc[2].nw
       /\ tw = (tloc[1].cw + 1) % Size
       /\ ~(MisPresent(tloc[1].item) /\ MisPresent(tloc[2].item))

\* C28 witness: both threads have returned true for the first two items,
\* one TryPop has returned an item and the next TryPop has returned false.
C28_Witness ==
  /\ BothPushed /\ tcount.succ = 2
  /\ Len(tpopped) = 1 /\ ~tcret

(***************************************************************************)
(* Properties of the pipeline program.                                     *)
(***************************************************************************)
\* the items between the cursors of a buffer of main, oldest first
MainLive(b) ==
  [i \in 1..((b.w - b.r + Size) % Size) |-> b.buf[(b.r + i - 1) % Size]]

\* C29: no record is dropped: every message handed to the feed callback
\* has been popped by the normalization thread or waits in raw_buffer, and
\* every normalized update has been popped by the processing thread or
\* waits in normalized_buffer, also when the buffer was full at the push.
C29_NoRecordDropped ==
  /\ mtaken \o MainLive(mraw) = [i \in 1..mfed |-> i]
  /\ mdone \o MainLive(mnrm) = mmade

(***************************************************************************)
(* Properties of SeqLock.                                                  *)
(***************************************************************************)
\* C30: read never returns while the sequence value it last loaded is odd:
\* when it returns, its latest load of sequence gave an even value and the
\* pass of the loop it leaves made the copy between two loads of that value.
C30_ReturnsAfterEvenCopy ==
  rlpc = "L176" => (loaded % 2 = 0 /\ copied /\ seq1 = loaded /\ seq2 = loaded)

\* the data a reader may be given: the initial data or the arguments of
\* one write call
LockSnapshots ==
  {[k \in DataIdx |-> 0]} \cup
  {[k \in DataIdx |-> LockArg(n, k)] : n \in 1..MaxLockCalls}

\* C31: every snapshot in result when read returns is consistent: the
\* initial data or the four arguments of one single write call.
C31_ConsistentSnapshot == rlpc = "L176" => result \in LockSnapshots

(***************************************************************************)
(* Properties of the benchmarks of memory_ordering_example.cpp.            *)
(***************************************************************************)
\* C32: the Asymmetric Barrier benchmark terminates under fair scheduling:
\* both threads complete all their rounds.
C32_BarrierTerminates == <>(bppc = "done" /\ bcpc = "done")

\* C33: benchmark_sync_pattern returns: the Acquire-Release benchmark
\* terminates under fair scheduling with both threads joined.
C33_FlagTerminates == <>(fppc = "done" /\ fcpc = "done")

\* C34: a consumer that observes ready == true through its acquire load
\* reads data == 42.
C34_SeesData == fcpc = "L52" => (fcr /\ fcd = Answer)

\* the consumer has seen ready == true and read data while a store of 0 to
\* data is in its modification order and a newer round has been published
C34_Witness ==
  /\ fcpc = "L52"
  /\ fcr
  /\ fdata[1] = 0
  /\ Len(fdata) >= 2
  /\ fcround >= 1

\* C35: every Node published by producer_consume is dereferenced and
\* deleted by at most one call of consumer_consume, and no call reads or
\* deletes a Node that is already deleted.
C35_NodeUsedOnce ==
  /\ \A n \in Nodes : uses[n] <= 1
  /\ ncpc \in {"L105", "L106"} => ncn \in heap

(***************************************************************************)
(* The happens-before edge of the two-thread buffer.                       *)
(***************************************************************************)
\* the step of TryPop that loads read_idx_ (line 24), and the step that
\* loads write_idx_ and finds the buffer not empty (line 26)
PopLoadsReadIdx == cpc = "L24" /\ cpc' = "L26"
PopLoadsWriteIdx == cpc = "L26" /\ cpc' = "L30"

C37_AddsExactly ==
  /\ [](\A t \in CntThreads : ipc[t] = "done" => counters[t] = kIterations)
  /\ [][\A t \in CntThreads :
          counters'[t] # counters[t] => (ipc[t] # "done" /\ iv'[t] # iv[t])]_vars

=============================================================================
